---- MODULE Spec2Model ----
(***************************************************************************)
(* Inbound webhook authentication (OAuth 1 style HMAC signature with a     *)
(* replay cache) and the session manager of the Eloqua cloud-app adapter.  *)
(*                                                                         *)
(* Time is in whole seconds.  The document store is MongoDB: a collection  *)
(* is a bag of documents, and a document whose                             *)
(* _expires_at has passed MAY be removed by the store's TTL monitor (the   *)
(* code never filters on _expires_at itself).                              *)
(***************************************************************************)
EXTENDS Integers, Sequences, FiniteSets, Bags, TLC

VARIABLES
    now,            \* wall clock, time.time() / datetime.utcnow()
    ticks,          \* how many times the clock has advanced (bounds the run)
    cache,          \* Database._cache: the replay cache collection
    sessions,       \* Database._sessions: the session collection
    nextId,         \* the next ObjectId the store hands out
    installations,  \* Database._installations
    executions,     \* Database._executions: its documents without _id and
                    \* _created_at, so documents that differ in nothing else
                    \* are one element
    flask_session,  \* the signed cookie of each browser: session_id, expires_at
    hist,           \* history, per browser: the time of its last successful
                    \* session access, the session ids created for it, and the
                    \* cookies it was issued
    pending,        \* per worker: the request whose validation has passed its
                    \* checks and has not yet written its cache entry
    held,           \* per worker: the Session object that the view it is running
                    \* holds, NoObject when it holds none
    last            \* the request handled by the step just taken and what became
                    \* of it; Idle after a step of the environment

vars ==
    <<now, ticks, cache, sessions, nextId, installations, executions, flask_session,
      hist, pending, held, last>>

----------------------------------------------------------------------------
(* Bounds of the model *)

MaxTicks == 2
MaxCache == 2
MaxSessions == 2
MaxWorkers == 2

(* Program constants *)

StaleWindow == 300
CacheTTL == 300
SessionTTL == 3600
InstallSessionTTL == 300

(* Configuration (settings.py: CLOUD_APP_CLIENT_ID, CLOUD_APP_CLIENT_SECRET) *)

CLOUD_APP_CLIENT_ID == "app1"
CLOUD_APP_CLIENT_SECRET == "shh"

None == 0

----------------------------------------------------------------------------
(* Strings are sequences of characters.  A token that is none of the      *)
(* characters below stands for a run of letters and digits.               *)

Reserved == {" ", "/", "+", "%", "&", "=", ":"}

PctCode(c) ==
    CASE c = " " -> <<"%", "2", "0">>
      [] c = "/" -> <<"%", "2", "F">>
      [] c = "+" -> <<"%", "2", "B">>
      [] c = "%" -> <<"%", "2", "5">>
      [] c = "&" -> <<"%", "2", "6">>
      [] c = "=" -> <<"%", "3", "D">>
      [] c = ":" -> <<"%", "3", "A">>

RECURSIVE quote_safe(_, _)
quote_safe(s, safe) ==
    IF s = << >> THEN << >>
    ELSE (IF Head(s) \in Reserved \ safe THEN PctCode(Head(s)) ELSE <<Head(s)>>)
         \o quote_safe(Tail(s), safe)

\* urllib.parse.quote(v): safe defaults to "/"
quote(s) == quote_safe(s, {"/"})

RECURSIVE replace(_, _, _)
\* str.replace(old, new) for a one-character old
replace(s, old, new) ==
    IF s = << >> THEN << >>
    ELSE (IF Head(s) = old THEN new ELSE <<Head(s)>>) \o replace(Tail(s), old, new)

\* urllib.parse.quote_plus(v): a space becomes "+", nothing else is safe
quote_plus(s) == replace(quote_safe(s, {" "}), " ", <<"+">>)

\* quote(v).replace("+", "%20").replace("/", "%2F"), decorators.py:154
encode_value(v) ==
    replace(replace(quote(v), "+", <<"%", "2", "0">>), "/", <<"%", "2", "F">>)

----------------------------------------------------------------------------
(* The query string: a sequence of <<key, value>> pairs (a MultiDict).    *)

\* The keys in Python's string order.
KeyOrder ==
    <<"app_id", "callback_url", "foo", "install_id", "instance_id",
      "oauth_consumer_key", "oauth_nonce", "oauth_signature", "oauth_timestamp",
      "site_id", "x">>

Keys(args) == {args[i][1] : i \in DOMAIN args}

\* MultiDict.get(key): the first value of the key
FirstIndex(args, k) == CHOOSE i \in DOMAIN args :
    args[i][1] = k /\ \A j \in DOMAIN args : args[j][1] = k => i <= j

\* MultiDict.to_dict(): the first value of every key
to_dict(args) == [k \in Keys(args) |-> args[FirstIndex(args, k)][2]]

RECURSIVE sorted_items(_, _)
\* sorted(d.items()) from position i of KeyOrder on
sorted_items(d, i) ==
    IF i > Len(KeyOrder) THEN << >>
    ELSE (IF KeyOrder[i] \in DOMAIN d THEN <<<<KeyOrder[i], d[KeyOrder[i]]>>>> ELSE << >>)
         \o sorted_items(d, i + 1)

RECURSIVE join_pairs(_)
\* "&".join("{}={}".format(k, v) for (k, v) in items)
join_pairs(items) ==
    IF items = << >> THEN << >>
    ELSE <<Head(items)[1], "=">> \o Head(items)[2]
         \o (IF Len(items) > 1 THEN <<"&">> ELSE << >>) \o join_pairs(Tail(items))

\* A request: method, scheme and endpoint give request.base_url; the oauth_*
\* parameters; query holds the other parameters in the order they arrived.
request_args(req) ==
    <<<<"oauth_consumer_key", <<req.oauth_consumer_key>>>>,
      <<"oauth_nonce", <<req.oauth_nonce>>>>,
      <<"oauth_timestamp", <<ToString(req.oauth_timestamp)>>>>,
      <<"oauth_signature", <<"sig">>>>>> \o req.query

base_url(req) == <<req.scheme, ":", "/", "/", "host", "/", req.endpoint>>

\* request.base_url.replace("http://", "https://")
https_base_url(req) == <<"https">> \o Tail(base_url(req))

\* {k: quote(v)... for k, v in request.args.to_dict().items() if k != "oauth_signature"}
query_parameters(req) ==
    LET d == to_dict(request_args(req))
    IN  [k \in DOMAIN d \ {"oauth_signature"} |-> encode_value(d[k])]

RECURSIVE arrival_items(_)
\* The items other than oauth_signature in the order of the request, encoded
arrival_items(args) ==
    IF args = << >> THEN << >>
    ELSE (IF Head(args)[1] = "oauth_signature" THEN << >>
          ELSE <<<<Head(args)[1], encode_value(Head(args)[2])>>>>)
         \o arrival_items(Tail(args))

\* A message whose parameters are joined in the order of the request
signature_message_unsorted(req) ==
    <<req.method, "&">> \o quote_plus(https_base_url(req)) \o <<"&">>
    \o quote(join_pairs(arrival_items(request_args(req))))

\* The message of _oauth_is_signature_valid: method & quote_plus(url) &
\* quote(sorted, joined parameters), decorators.py:153-164
signature_message(req) ==
    <<req.method, "&">> \o quote_plus(https_base_url(req)) \o <<"&">>
    \o quote(join_pairs(sorted_items(query_parameters(req), 1)))

\* hmac.digest(key, message, sha1), base64 encoded: a collision-free digest
hmac_digest(key, message) == <<"hmac-sha1", key, message>>

generate_signature_with(req, secret) ==
    hmac_digest(<<secret, "&">>, signature_message(req))

generate_signature(req) == generate_signature_with(req, CLOUD_APP_CLIENT_SECRET)

----------------------------------------------------------------------------
(* The replay cache, database.py "Cache methods" *)

\* Database._get_expiration_date(expires_in) at time t
_get_expiration_date(t, expires_in) == t + expires_in

\* A cache whose entries expire after a minute
save_to_cache_minute(c, data, t) ==
    c (+) SetToBag({[_expires_in |-> 60,
                     _expires_at |-> _get_expiration_date(t, 60),
                     data |-> data]})

\* A cache with a unique index on data: a second insert of the same data is lost
save_to_cache_unique(c, data, t) ==
    IF \E e \in BagToSet(c) : e.data = data THEN c
    ELSE c (+) SetToBag({[_expires_in |-> CacheTTL,
                          _expires_at |-> _get_expiration_date(t, CacheTTL),
                          data |-> data]})

\* Database.save_to_cache(data, expires_in=300): insert_one
save_to_cache(c, data, t) ==
    c (+) SetToBag({[_expires_in |-> CacheTTL,
                     _expires_at |-> _get_expiration_date(t, CacheTTL),
                     data |-> data]})

\* A lookup that finds nothing
has_duplicates_never(c, oauth_nonce, oauth_timestamp) == FALSE

\* Database.find_one_from_cache(matching_data) is not None
has_duplicates_in_cache(c, oauth_nonce, oauth_timestamp) ==
    \E e \in BagToSet(c) :
        e.data = [oauth_nonce |-> oauth_nonce, oauth_timestamp |-> oauth_timestamp]

\* A window that closes one second early
timestamp_is_stale_at_edge(t, oauth_timestamp) == t - StaleWindow >= oauth_timestamp

\* int(time.time()) - 60 * 5 > int(oauth_timestamp)
timestamp_is_stale(t, oauth_timestamp) == t - StaleWindow > oauth_timestamp

\* A validator that does not look at the consumer key
consumer_key_is_valid_any(req) == TRUE

\* oauth_consumer_key == CLOUD_APP_CLIENT_ID
consumer_key_is_valid(req) == req.oauth_consumer_key = CLOUD_APP_CLIENT_ID

signature_matches(req) == req.oauth_signature = generate_signature(req)

\* _oauth_is_signature_valid(): "ok", or the check that failed, in the code's order
_oauth_is_signature_valid(req, c, t) ==
    IF ~consumer_key_is_valid(req) THEN "consumer_key"
    ELSE IF timestamp_is_stale(t, req.oauth_timestamp) THEN "timestamp"
    ELSE IF has_duplicates_in_cache(c, req.oauth_nonce, req.oauth_timestamp) THEN "replay"
    ELSE IF ~signature_matches(req) THEN "signature"
    ELSE "ok"

\* How the oauth_* parameters of a request may be out of shape: all there,
\* oauth_timestamp missing (request.args.get gives None), oauth_timestamp not
\* a number, oauth_signature missing
Shapes == {"ok", "no_timestamp", "bad_timestamp", "no_signature"}

\* The exception _oauth_is_signature_valid() raises on a request of the given
\* shape, "none" when it returns: int(None) is a TypeError and int("abc") a
\* ValueError in the timestamp check, None.encode an AttributeError in the
\* comparison of the signatures
oauth_raises(req, shape, c, t) ==
    IF ~consumer_key_is_valid(req) THEN "none"
    ELSE IF shape = "no_timestamp" THEN "TypeError"
    ELSE IF shape = "bad_timestamp" THEN "ValueError"
    ELSE IF timestamp_is_stale(t, req.oauth_timestamp) THEN "none"
    ELSE IF has_duplicates_in_cache(c, req.oauth_nonce, req.oauth_timestamp) THEN "none"
    ELSE IF shape = "no_signature" THEN "AttributeError"
    ELSE "none"

\* The steps of a validation that ended in the exception raised
raise_trace(raised) ==
    IF raised = "AttributeError"
    THEN <<"check_consumer_key", "check_timestamp", "find_one_from_cache",
           "generate_signature">>
    ELSE <<"check_consumer_key", "check_timestamp">>

\* The store operations one validation performs, in order.
validation_trace(cause) ==
    IF cause = "consumer_key" THEN <<"check_consumer_key">>
    ELSE IF cause = "timestamp" THEN <<"check_consumer_key", "check_timestamp">>
    ELSE IF cause = "replay"
         THEN <<"check_consumer_key", "check_timestamp", "find_one_from_cache">>
    ELSE <<"check_consumer_key", "check_timestamp", "find_one_from_cache",
           "generate_signature">>

----------------------------------------------------------------------------
(* The session collection, database.py "Custom session methods" *)

find_session(S, id) == {d \in S : d._id = id}

\* Database.set_session(data, session_id=None, ...): insert_one, then find_one
insert_session(S, id, data, expires_in, is_authed, t) ==
    S \cup {[_id |-> id, _expires_in |-> expires_in,
             _expires_at |-> _get_expiration_date(t, expires_in),
             data |-> data, is_authed |-> is_authed]}

\* An update that merges the payload into the data of the record
update_session_merge(S, id, data, expires_in, t) ==
    {IF d._id = id
     THEN [d EXCEPT !._expires_in = expires_in,
                    !._expires_at = _get_expiration_date(t, expires_in),
                    !.data = {p \in d.data : p[1] \notin {q[1] : q \in data}} \cup data]
     ELSE d : d \in S}

\* An update that leaves the expiry of the record alone
update_session_keep_expiry(S, id, data, expires_in, t) ==
    {IF d._id = id THEN [d EXCEPT !._expires_in = expires_in, !.data = data] ELSE d :
        d \in S}

\* Database.set_session(data, session_id, expires_in=3600, is_authed=None):
\* find_one_and_update with $set of _expires_in, _expires_at and data
update_session(S, id, data, expires_in, t) ==
    {IF d._id = id
     THEN [d EXCEPT !._expires_in = expires_in,
                    !._expires_at = _get_expiration_date(t, expires_in),
                    !.data = data]
     ELSE d : d \in S}

\* dict.__setitem__(key, value) on a payload held as a set of pairs
setitem(data, key, value) == {p \in data : p[1] # key} \cup {<<key, value>>}

\* Database.get_session(session_id, refresh_session=True): the collection after
\* the refresh.  The document returned is the one found BEFORE the refresh.
refresh_session(S, id, t) ==
    {IF d._id = id THEN [d EXCEPT !._expires_at = _get_expiration_date(t, d._expires_in)]
     ELSE d : d \in S}

\* Database.delete_session(session_id)
delete_session(S, id) == {d \in S : d._id # id}

\* Session.has_expired / the cookie test of Session.__init__
has_expired(expires_at, t) == t >= expires_at

NoCookie == [session_id |-> None, expires_at |-> None]

\* No Session object
NoObject == [id |-> None, data |-> {}, is_authed |-> "None"]

\* Validations that report a bound id without a record as not found
resolve_error_by_cause(session_id, expires_at, found, t) ==
    IF found = {} THEN "SessionNotFound"
    ELSE IF expires_at # None /\ has_expired(expires_at, t) THEN "SessionExpired"
    ELSE "none"

\* Validations that know one failure only
resolve_error_expired_only(session_id, expires_at, found, t) ==
    IF found = {} \/ (expires_at # None /\ has_expired(expires_at, t))
    THEN "SessionExpired"
    ELSE "none"

\* Session.__init__ with create_new=False: the validations of lines 50-59
resolve_error(session_id, expires_at, found, t) ==
    IF (session_id # None /\ found = {})
       \/ (expires_at # None /\ has_expired(expires_at, t))
    THEN "SessionExpired"
    ELSE IF found = {} THEN "SessionNotFound"
    ELSE "none"

\* Session.__init__: what it leaves in the store and in the cookie, and how it ends.
\* error is "none", "SessionExpired" or "SessionNotFound".
Session(cookie, S, nid, t, initial_data, is_authed, create_new) ==
    LET session_id == cookie.session_id
        expires_at == cookie.expires_at
        found == IF session_id # None THEN find_session(S, session_id) ELSE {}
        S1 == IF session_id # None THEN refresh_session(S, session_id, t) ELSE S
        read == IF session_id # None THEN <<"get_session">> ELSE << >>
    IN  IF create_new
        THEN LET S2 == IF found # {} THEN delete_session(S1, session_id) ELSE S1
                 S3 == insert_session(S2, nid, initial_data, SessionTTL, is_authed, t)
                 doc == CHOOSE d \in find_session(S3, nid) : TRUE
             IN  [sessions |-> S3, nextId |-> nid + 1, error |-> "none",
                  cookie |-> [session_id |-> doc._id, expires_at |-> doc._expires_at],
                  is_authed |-> doc.is_authed,
                  trace |-> read
                            \o (IF found # {} THEN <<"delete_session">> ELSE << >>)
                            \o <<"set_session">>]
        ELSE IF resolve_error(session_id, expires_at, found, t) # "none"
        THEN [sessions |-> S1, nextId |-> nid,
              error |-> resolve_error(session_id, expires_at, found, t),
              cookie |-> NoCookie, is_authed |-> "None", trace |-> read]
        ELSE LET doc == CHOOSE d \in found : TRUE
             IN  [sessions |-> S1, nextId |-> nid, error |-> "none",
                  cookie |-> [session_id |-> doc._id, expires_at |-> doc._expires_at],
                  is_authed |-> doc.is_authed, trace |-> read]

\* session.get_session() and session.create_session(initial_data, is_authed)
get_session(cookie, S, nid, t) == Session(cookie, S, nid, t, {}, "False", FALSE)

create_session(cookie, S, nid, t, is_authed) ==
    Session(cookie, S, nid, t, {}, is_authed, TRUE)

----------------------------------------------------------------------------
(* The installation collection, database.py "Installation method" *)

Absent == <<"(absent)">>

\* MultiDict[key] / .get(key): the first value, or Absent
arg(args, k) == IF k \in Keys(args) THEN args[FirstIndex(args, k)][2] ELSE Absent

\* An install that replaces the whole document
upsert_installation_replace(I, data) ==
    {d \in I : d.install_id # data.install_id}
    \cup {[install_id |-> data.install_id, app_id |-> data.app_id,
           site_id |-> data.site_id, _name |-> data._name,
           base_url |-> Absent, oauth_token |-> Absent]}

\* Database.upsert_installation(data): update_one(filter={"install_id": ...},
\* {"$set": data}, upsert=True); data holds _name, app_id, install_id, site_id
upsert_installation(I, data) ==
    IF \E d \in I : d.install_id = data.install_id
    THEN {IF d.install_id = data.install_id
          THEN [d EXCEPT !._name = data._name, !.app_id = data.app_id,
                         !.site_id = data.site_id]
          ELSE d : d \in I}
    ELSE I \cup {[install_id |-> data.install_id, app_id |-> data.app_id,
                  site_id |-> data.site_id, _name |-> data._name,
                  base_url |-> Absent, oauth_token |-> Absent]}

\* A delete that filters on install_id alone
delete_installation_by_install_id(I, app_id, install_id) ==
    {d \in I : d.install_id # install_id}

\* Database.delete_installation(app_id, install_id): delete_one
delete_installation(I, app_id, install_id) ==
    {d \in I : ~(d.install_id = install_id /\ d.app_id = app_id)}

\* Database.get_installation(app_id, install_id): find_one
get_installation(I, app_id, install_id) ==
    {d \in I : d.install_id = install_id /\ d.app_id = app_id}

\* An update that is never carried out
update_installation_skipped(I, app_id, install_id, url) ==
    [installations |-> I, matched |-> FALSE]

\* Database.update_installation(app_id, install_id, data={"base_url": ...}):
\* update_one without upsert; matched is what the method returns
update_installation(I, app_id, install_id, url) ==
    [installations |->
        {IF d.install_id = install_id /\ d.app_id = app_id
         THEN [d EXCEPT !.base_url = url] ELSE d : d \in I},
     matched |-> get_installation(I, app_id, install_id) # {}]

\* A set_token that writes nothing
set_token_dropped(I, app_id, install_id, token) == I

\* Database.set_token(app_id, install_id, token): update_one without upsert
set_token(I, app_id, install_id, token) ==
    {IF d.install_id = install_id /\ d.app_id = app_id
     THEN [d EXCEPT !.oauth_token = token] ELSE d : d \in I}

\* Database.get_token(app_id, install_id): None (Absent here) when there is no
\* installation or it holds no token
get_token(I, app_id, install_id) ==
    IF get_installation(I, app_id, install_id) = {} THEN Absent
    ELSE (CHOOSE d \in get_installation(I, app_id, install_id) : TRUE).oauth_token

\* Database.insert_execution(app_id, install_id, instance_id, execution_id):
\* insert_one of a new document; instance_config is what
\* get_service_instance_custom_configuration returns at this moment
insert_execution(E, app_id, install_id, instance_id, execution_id, instance_config) ==
    E \cup {[app_id |-> app_id, install_id |-> install_id,
               instance_id |-> instance_id, execution_id |-> execution_id,
               instance_config |-> instance_config]}

\* Database.get_execution(execution_id): find_one({"execution_id": ...}) with
\* no sort, so any of the matching documents; the empty set stands for None
get_execution(E, execution_id) == {d \in E : d.execution_id = execution_id}

\* TokenManager(app_id, install_id): the instance, holding no token yet
manager_init(app_id, install_id) ==
    [_app_id |-> app_id, _install_id |-> install_id, _token |-> Absent]

\* A __call__ that writes the store and leaves the instance's _token alone
manager_call_store_only(I, m, token) ==
    [installations |-> set_token(I, m._app_id, m._install_id, token), manager |-> m]

\* TokenManager.__call__(token): set_token on the store, then _token = token
manager_call(I, m, token) ==
    [installations |-> set_token(I, m._app_id, m._install_id, token),
     manager |-> [m EXCEPT !._token = token]]

\* TokenManager.set(token): self(token)
manager_set(I, m, token) == manager_call(I, m, token)

\* TokenManager.get(): loads _token from the store when it is None
manager_get(I, m) ==
    LET loaded == IF m._token = Absent
                  THEN [m EXCEPT !._token = get_token(I, m._app_id, m._install_id)]
                  ELSE m
    IN  [manager |-> loaded, value |-> loaded._token]

----------------------------------------------------------------------------
(* The OAuth2 state string, auth.py OAuth2State, and the ids of the store *)

\* str.split(sep): the pieces of s between the separators
RECURSIVE split(_, _)
split(s, sep) ==
    IF \A i \in DOMAIN s : s[i] # sep THEN <<s>>
    ELSE LET i == CHOOSE j \in DOMAIN s :
                    s[j] = sep /\ \A k \in 1 .. j - 1 : s[k] # sep
         IN  <<SubSeq(s, 1, i - 1)>> \o split(SubSeq(s, i + 1, Len(s)), sep)

\* A state string with the token in front
to_str_token_first(session_id, token) == token \o <<".">> \o session_id

\* OAuth2State.to_str(): "{session_id}.{token}"
to_str(session_id, token) == session_id \o <<".">> \o token

\* A from_str that takes a string without "." as the session id
from_str_whole(v) == [error |-> "none", session_id |-> split(v, ".")[1]]

\* OAuth2State.from_str(v): split[0] and split[1]; IndexError without a "."
from_str(v) ==
    LET pieces == split(v, ".")
    IN  IF Len(pieces) < 2 THEN [error |-> "IndexError", session_id |-> << >>]
        ELSE [error |-> "none", session_id |-> pieces[1]]

\* The ids the store hands out, and str(ObjectId)
ObjectIds == 1 .. MaxSessions + 1

str_id(id) == <<ToString(id)>>

\* ObjectId(session_id): bson raises InvalidId unless the string is well formed
is_valid_id(s) == \E id \in ObjectIds : str_id(id) = s

ObjectId(s) == CHOOSE id \in ObjectIds : str_id(id) = s

\* session_["data"][key]
data_get(data, k) == (CHOOSE p \in data : p[1] = k)[2]

data_keys(data) == {p[1] : p \in data}

\* What the authorization server and the identity endpoint may answer
Tokens == {<<"tok1">>, <<"tok2">>}
BaseUrls == {<<"base1">>}
Failed == <<"(failed)">>

\* The statements of dispatch_request in program order
CallbackOrder ==
    <<"from_str", "get_session", "fetch_token", "set_token", "get_identity",
      "update_installation", "before_redirect", "redirect">>

\* An exception swallowed: the request goes on to the redirect
swallow(S, I, error, n) ==
    [sessions |-> S, installations |-> I, status |-> 302, error |-> error,
     trace |-> CallbackOrder, location |-> Absent]

\* An exception raised by step n of dispatch_request: nothing catches it, the
\* steps after n do not run and the framework answers 500
propagate(S, I, error, n) ==
    [sessions |-> S, installations |-> I, status |-> 500, error |-> error,
     trace |-> SubSeq(CallbackOrder, 1, n), location |-> Absent]

\* BaseOAuthCallbackView.dispatch_request for request.args["state"] = state, when
\* fetch_token answers token and the identity endpoint answers url (Failed: the
\* call raises).  What it leaves in the two collections and how it ends: status
\* 400 is the response "Session expired", status 500 with an error name is an
\* exception that reaches the framework.
dispatch_request(state, S, I, t, token, url) ==
    LET st == from_str(state)
        valid == st.error = "none" /\ is_valid_id(st.session_id)
        id == IF valid THEN ObjectId(st.session_id) ELSE None
        found == IF valid THEN find_session(S, id) ELSE {}
        S1 == IF valid THEN refresh_session(S, id, t) ELSE S
        session_ == CHOOSE d \in found : TRUE
        app_id == <<CLOUD_APP_CLIENT_ID>>
        install_id == data_get(session_.data, "install_id")
        I1 == set_token(I, app_id, install_id, token)
        upd == update_installation(I1, app_id, install_id, url)
    IN  IF st.error # "none" THEN propagate(S, I, st.error, 1)
        ELSE IF ~valid THEN propagate(S, I, "InvalidId", 2)
        ELSE IF found = {}
        THEN [sessions |-> S, installations |-> I, status |-> 400, error |-> "none",
              trace |-> SubSeq(CallbackOrder, 1, 2), location |-> Absent]
        ELSE IF ~({"redirect_url", "install_id"} \subseteq data_keys(session_.data))
        THEN propagate(S1, I, "KeyError", 2)
        ELSE IF token = Failed THEN propagate(S1, I, "fetch_token", 3)
        ELSE IF url = Failed THEN propagate(S1, I1, "get_identity", 5)
        ELSE [sessions |-> S1, installations |-> upd.installations, status |-> 302,
              error |-> "none", trace |-> CallbackOrder,
              location |-> data_get(session_.data, "redirect_url")]

----------------------------------------------------------------------------
(* The requests of the model *)

Browsers == {"b1"}
Workers == 1 .. MaxWorkers
Nonces == {"n1", "n2"}
ConsumerKeys == {CLOUD_APP_CLIENT_ID, "app2"}
CallbackUrl == <<"https", ":", "/", "/", "elq", "/", "cb">>

InstallQuery ==
    <<<<"install_id", <<"i1">>>>, <<"callback_url", CallbackUrl>>,
      <<"app_id", <<"app1">>>>, <<"site_id", <<"s1">>>>>>

QueryChoices(e) ==
    CASE e = "install" -> {InstallQuery, SubSeq(InstallQuery, 1, 1)}
      [] e = "uninstall" -> {SubSeq(InstallQuery, 1, 1) \o SubSeq(InstallQuery, 3, 3)}
      [] e = "create" -> {<<<<"instance_id", <<"x1">>>>>>, << >>}
      [] OTHER -> {<< >>}

\* The (nonce, timestamp) pairs already seen: a replay sends one of them again.
Replayed ==
    {<<e.data.oauth_nonce, e.data.oauth_timestamp>> : e \in BagToSet(cache)}
    \cup (IF last.decision = "none" THEN {}
          ELSE {<<last.req.oauth_nonce, last.req.oauth_timestamp>>})

\* The timestamps a signer sends: stale, on the edge of the window, current
TsChoices == {now - StaleWindow - 1, now - StaleWindow, now}

Unsigned(e, m, keys, pairs) ==
    {[method |-> m, scheme |-> "http", endpoint |-> e, oauth_consumer_key |-> k,
      oauth_nonce |-> p[1], oauth_timestamp |-> p[2], oauth_signature |-> << >>,
      query |-> q] :
        k \in keys, p \in pairs, q \in QueryChoices(e)}

\* Signed by the platform (the shared secret) or by someone guessing the secret.
Secrets == {CLOUD_APP_CLIENT_SECRET, "guess"}

Signed(rs, secrets) ==
    {[r EXCEPT !.oauth_signature = generate_signature_with(r, sec)] :
        r \in rs, sec \in secrets}

\* The requests sent to the endpoints of the application
Requests(e, m) ==
    Signed(Unsigned(e, m, {CLOUD_APP_CLIENT_ID},
                    ({"n1"} \X {now - StaleWindow - 1, now}) \cup Replayed),
           {CLOUD_APP_CLIENT_SECRET})
    \cup Signed(Unsigned(e, m, {CLOUD_APP_CLIENT_ID}, {<<"n1", now>>}), Secrets)

\* The requests sent to the validator when it is examined alone; the clock of
\* one signer runs a second ahead.
ValidatorRequests ==
    Signed(Unsigned("status", "GET", {CLOUD_APP_CLIENT_ID},
                    (Nonces \X TsChoices) \cup {<<"n2", now + 1>>} \cup Replayed),
           Secrets)
    \cup Signed(Unsigned("status", "GET", ConsumerKeys \ {CLOUD_APP_CLIENT_ID},
                         ({"n1"} \X TsChoices) \cup Replayed),
                {CLOUD_APP_CLIENT_SECRET})

\* A form post from the configuration page: it carries no oauth_* parameters.
FormPost ==
    [method |-> "POST", scheme |-> "http", endpoint |-> "configure",
     oauth_consumer_key |-> "(absent)", oauth_nonce |-> "(absent)",
     oauth_timestamp |-> 0, oauth_signature |-> << >>, query |-> << >>]

NoRequest ==
    [method |-> "-", scheme |-> "-", endpoint |-> "-", oauth_consumer_key |-> "-",
     oauth_nonce |-> "-", oauth_timestamp |-> 0, oauth_signature |-> << >>,
     query |-> << >>]

----------------------------------------------------------------------------
Idle ==
    [op |-> "idle", caller |-> "-", req |-> NoRequest, cookie |-> NoCookie,
     decision |-> "none", cause |-> "none", trace |-> << >>, status |-> 0,
     error |-> "none"]

Init ==
    /\ now = 0
    /\ ticks = 0
    /\ cache = EmptyBag
    /\ sessions = {}
    /\ nextId = 1
    /\ installations = {}
    /\ executions = {}
    /\ flask_session = [b \in Browsers |-> NoCookie]
    /\ hist = [b \in Browsers |-> [accessed |-> -1, created |-> {}, cookies |-> {}]]
    /\ pending = [w \in Workers |-> NoRequest]
    /\ held = [w \in Workers |-> NoObject]
    /\ last = Idle

\* validate_oauth_signature: ACCEPT when _oauth_is_signature_valid() is true
decision_of(cause) == IF cause = "ok" THEN "ACCEPT" ELSE "REJECT"

\* What a step leaves in last: cookie is the cookie the request carried.
Outcome(op, caller, req, cause, trace, status, error) ==
    [op |-> op, caller |-> caller, req |-> req,
     cookie |-> IF caller \in Browsers THEN flask_session[caller] ELSE NoCookie,
     decision |-> IF cause = "none" THEN "none" ELSE decision_of(cause),
     cause |-> cause, trace |-> trace, status |-> status, error |-> error]

Done(op, caller, req, cause, trace, status, error) ==
    last' = Outcome(op, caller, req, cause, trace, status, error)

\* The history after browser b was handed the session s by Session.__init__
Recorded(b, s, ids) ==
    [hist EXCEPT ![b] = [accessed |-> IF s.error = "none" THEN now ELSE @.accessed,
                         created |-> @.created \cup ids,
                         cookies |-> IF s.error = "none" THEN @.cookies \cup {s.cookie}
                                     ELSE @.cookies]]

\* A response that tells a replay from the other causes
reject_status_by_cause(cause) == IF cause = "replay" THEN 409 ELSE 401

\* The status of the REJECT branch, whatever the warning that was logged
reject_status(cause) == 401

\* validate_oauth_signature, the REJECT branch: abort(401)
Reject(op, caller, req, cause) ==
    /\ cause # "ok"
    /\ Done(op, caller, req, cause, validation_trace(cause), reject_status(cause), "none")
    /\ UNCHANGED <<executions, now, ticks, cache, sessions, nextId, installations, flask_session, hist, pending, held>>

\* A decorator that writes the cache entry and goes on whatever the validator said
Accept_unchecked(req, cause) ==
    /\ BagCardinality(cache) < MaxCache
    /\ cache' = save_to_cache(cache, [oauth_nonce |-> req.oauth_nonce,
                                      oauth_timestamp |-> req.oauth_timestamp], now)

\* validate_oauth_signature, the ACCEPT branch up to the call of f
Accept(req, cause) ==
    /\ cause = "ok"
    /\ BagCardinality(cache) < MaxCache
    /\ cache' = save_to_cache(cache, [oauth_nonce |-> req.oauth_nonce,
                                      oauth_timestamp |-> req.oauth_timestamp], now)

accept_trace == validation_trace("ok") \o <<"save_to_cache">>

\* required_args(keys): the keys that request.args lacks
missing_keys(req, keys) == {k \in keys : k \notin Keys(request_args(req))}

----------------------------------------------------------------------------
(* Endpoints.  Each action is one request from the first decorator to the   *)
(* response; the outermost decorator of every endpoint below is            *)
(* validate_oauth_signature.                                               *)

\* An endpoint whose handler writes none of the collections of this model.
SignedCall(op, req, statuses) ==
    LET cause == _oauth_is_signature_valid(req, cache, now)
    IN  \/ Reject(op, "-", req, cause)
        \/ /\ Accept(req, cause)
           /\ \E st \in statuses :
                Done(op, "-", req, cause, accept_trace \o <<"handler">>, st, "none")
           /\ UNCHANGED <<executions, now, ticks, sessions, nextId, installations, flask_session, hist, pending, held>>

\* POST /eloqua/lifecycle/install
lifecycle_install(req) ==
    LET cause == _oauth_is_signature_valid(req, cache, now)
        missing == missing_keys(req, {"install_id", "callback_url", "app_id", "site_id"})
    IN  \/ Reject("install", "-", req, cause)
        \/ /\ Accept(req, cause)
           /\ missing # {}
           /\ Done("install", "-", req, cause,
                   accept_trace \o <<"required_args">>, 400, "none")
           /\ UNCHANGED <<executions, now, ticks, sessions, nextId, installations, flask_session, hist, pending, held>>
        \/ /\ Accept(req, cause)
           /\ missing = {}
           /\ nextId <= MaxSessions
           /\ sessions' = insert_session(sessions, nextId,
                            {<<"install_id", arg(req.query, "install_id")>>,
                             <<"redirect_url", arg(req.query, "callback_url")>>},
                            InstallSessionTTL, "None", now)
           /\ nextId' = nextId + 1
           /\ installations' = upsert_installation(installations,
                            [_name |-> <<"friendly">>,
                             install_id |-> arg(req.query, "install_id"),
                             app_id |-> arg(req.query, "app_id"),
                             site_id |-> arg(req.query, "site_id")])
           /\ last' = Outcome("install", "-", req, cause,
                              accept_trace \o <<"required_args", "handler">>, 302,
                              "none")
                       @@ [state |-> to_str(str_id(nextId), <<"r">>)]
           /\ UNCHANGED <<executions, now, ticks, flask_session, hist, pending, held>>

\* POST /eloqua/lifecycle/uninstall
lifecycle_uninstall(req) ==
    LET cause == _oauth_is_signature_valid(req, cache, now)
        app_id == arg(req.query, "app_id")
        install_id == arg(req.query, "install_id")
        I == delete_installation(installations, app_id, install_id)
    IN  \/ Reject("uninstall", "-", req, cause)
        \/ /\ Accept(req, cause)
           /\ installations' = I
           /\ Done("uninstall", "-", req, cause, accept_trace \o <<"handler">>,
                   IF I = installations THEN 400 ELSE 204, "none")
           /\ UNCHANGED <<executions, now, ticks, sessions, nextId, flask_session, hist, pending, held>>

\* GET /eloqua/lifecycle/status
lifecycle_status(req) == SignedCall("status", req, {200})

\* GET /eloqua/oauth/callback?state=...: the view has no decorators
CallbackRequest(state) ==
    [method |-> "GET", scheme |-> "http", endpoint |-> "callback",
     oauth_consumer_key |-> "(absent)", oauth_nonce |-> "(absent)",
     oauth_timestamp |-> 0, oauth_signature |-> << >>,
     query |-> <<<<"state", state>>>>]

oauth_callback(state, token, url) ==
    LET req == CallbackRequest(state)
        r == dispatch_request(arg(req.query, "state"), sessions, installations, now,
                              token, url)
    IN  /\ sessions' = r.sessions
        /\ installations' = r.installations
        /\ last' = Outcome("callback", "-", req, "none", r.trace, r.status, r.error)
                    @@ [location |-> r.location]
        /\ UNCHANGED <<executions, now, ticks, cache, nextId, flask_session, hist, pending, held>>

\* TokenManager(app_id, install_id).set(token), also the token_updater of the
\* OAuth2 client; the step records its arguments as the query of last.req
TokenRequest(app_id, install_id, token) ==
    [NoRequest EXCEPT !.endpoint = "TokenManager",
                      !.query = <<<<"app_id", app_id>>, <<"install_id", install_id>>,
                                  <<"token", token>>>>]

TokenManager_set(app_id, install_id, token) ==
    /\ installations' = set_token(installations, app_id, install_id, token)
    /\ Done("token_set", "-", TokenRequest(app_id, install_id, token), "none",
            <<"set_token">>, 0, "none")
    /\ UNCHANGED <<executions, now, ticks, cache, sessions, nextId, flask_session, hist, pending, held>>

\* The two ways a token is handed to a TokenManager
ManagerEntries == {"set", "__call__"}

\* One TokenManager instance: constructed for the pair, given the token through
\* set(token) or by being called, and then asked for it with get()
TokenManager_use(app_id, install_id, token, entry) ==
    LET m == manager_init(app_id, install_id)
        r == IF entry = "set" THEN manager_set(installations, m, token)
             ELSE manager_call(installations, m, token)
        g == manager_get(r.installations, r.manager)
    IN  /\ installations' = r.installations
        /\ last' = Outcome("manager", "-", TokenRequest(app_id, install_id, token),
                           "none", <<"set_token", "get">>, 0, "none")
                      @@ [entry |-> entry, _token |-> r.manager._token,
                          got |-> g.value]
        /\ UNCHANGED <<executions, now, ticks, cache, sessions, nextId, flask_session, hist,
                       pending, held>>

\* GET /eloqua/lifecycle/status with oauth_* parameters of the given shape; req
\* holds the parameters that are there and well formed.  An exception raised
\* in the validator is caught by nothing and Flask answers 500.
PresentShaped(req, shape) ==
    LET raised == oauth_raises(req, shape, cache, now)
        cause == _oauth_is_signature_valid(req, cache, now)
    IN  \/ /\ raised # "none"
           /\ last' = Outcome("status", "-", req, "none", raise_trace(raised), 500,
                              raised) @@ [shape |-> shape]
           /\ UNCHANGED <<executions, now, ticks, cache, sessions, nextId,
                          installations, flask_session, hist, pending, held>>
        \/ /\ raised = "none"
           /\ cause # "ok"
           /\ last' = Outcome("status", "-", req, cause, validation_trace(cause),
                              reject_status(cause), "none") @@ [shape |-> shape]
           /\ UNCHANGED <<executions, now, ticks, cache, sessions, nextId,
                          installations, flask_session, hist, pending, held>>
        \/ /\ raised = "none"
           /\ Accept(req, cause)
           /\ last' = Outcome("status", "-", req, cause,
                              accept_trace \o <<"handler">>, 200, "none")
                        @@ [shape |-> shape]
           /\ UNCHANGED <<executions, now, ticks, sessions, nextId, installations,
                          flask_session, hist, pending, held>>

\* POST /eloqua/ops/create/<app_id>/<install_id>: required_args is the inner decorator
DefaultCreateView(req) ==
    LET cause == _oauth_is_signature_valid(req, cache, now)
        missing == missing_keys(req, {"instance_id"})
    IN  \/ Reject("create", "-", req, cause)
        \/ /\ Accept(req, cause)
           /\ IF missing # {}
              THEN Done("create", "-", req, cause,
                        accept_trace \o <<"required_args">>, 400, "none")
              ELSE Done("create", "-", req, cause,
                        accept_trace \o <<"required_args", "handler">>, 200, "none")
           /\ UNCHANGED <<executions, now, ticks, sessions, nextId, installations, flask_session, hist, pending, held>>

\* DELETE /eloqua/ops/delete/...: 204, or 404 when there was no such instance
DefaultDeleteView(req) == SignedCall("delete", req, {204, 404})

\* POST /eloqua/ops/notify/<app_id>/<install_id>/<instance_id>: process_items
\* inserts the execution record before it calls anything downstream; 204, or
\* 500 when a downstream call fails.  instance_config is the custom
\* configuration that the instance has when the notification arrives.
NotifyView(req, instance_id, instance_config) ==
    LET cause == _oauth_is_signature_valid(req, cache, now)
    IN  \/ Reject("notify", "-", req, cause)
        \/ /\ Accept(req, cause)
           /\ executions' = insert_execution(executions, <<CLOUD_APP_CLIENT_ID>>,
                                             <<"i1">>, instance_id,
                                             arg(req.query, "execution_id"),
                                             instance_config)
           /\ \E st \in {204, 500} :
                last' = Outcome("notify", "-", req, cause,
                                accept_trace \o <<"handler">>, st, "none")
                          @@ [instance_id |-> instance_id]
           /\ UNCHANGED <<now, ticks, sessions, nextId, installations, flask_session,
                          hist, pending, held>>

\* GET /eloqua/ops/configure/...: validate_oauth_signature(methods=["GET"],
\* create_new_session=True) around require_authed_session around the view
ConfigureViewGet(b, req) ==
    LET cause == _oauth_is_signature_valid(req, cache, now)
        s1 == create_session(flask_session[b], sessions, nextId, now, "True")
        s2 == create_session(s1.cookie, s1.sessions, s1.nextId, now, "True")
    IN  \/ Reject("configure", b, req, cause)
        \/ /\ Accept(req, cause)
           /\ nextId + 1 <= MaxSessions
           /\ sessions' = s2.sessions
           /\ nextId' = s2.nextId
           /\ flask_session' = [flask_session EXCEPT ![b] = s2.cookie]
           /\ hist' = Recorded(b, s2, {nextId, nextId + 1})
           /\ IF s2.is_authed = "True"
              THEN Done("configure", b, req, cause,
                        accept_trace \o <<"create_session", "create_session", "handler">>,
                        200, "none")
              ELSE Done("configure", b, req, cause,
                        accept_trace \o <<"create_session", "create_session">>,
                        401, "none")
           /\ UNCHANGED <<executions, now, ticks, installations, pending, held>>

\* POST /eloqua/ops/configure/...: the signature decorator passes a POST through
ConfigureViewPost(b) ==
    LET s == create_session(flask_session[b], sessions, nextId, now, "True")
    IN  /\ nextId <= MaxSessions
        /\ sessions' = s.sessions
        /\ nextId' = s.nextId
        /\ flask_session' = [flask_session EXCEPT ![b] = s.cookie]
        /\ hist' = Recorded(b, s, {nextId})
        /\ IF s.is_authed = "True"
           THEN Done("configure", b, FormPost, "none",
                     <<"create_session", "handler">>, 200, "none")
           ELSE Done("configure", b, FormPost, "none",
                     <<"create_session">>, 401, "none")
        /\ UNCHANGED <<executions, now, ticks, cache, installations, pending, held>>

----------------------------------------------------------------------------
(* The session manager called directly *)

\* session.create_session(is_authed=...)
CreateSession(b, is_authed) ==
    LET s == create_session(flask_session[b], sessions, nextId, now, is_authed)
    IN  /\ nextId <= MaxSessions
        /\ sessions' = s.sessions
        /\ nextId' = s.nextId
        /\ flask_session' = [flask_session EXCEPT ![b] = s.cookie]
        /\ hist' = Recorded(b, s, {nextId})
        /\ Done("create_session", b, NoRequest, "none", s.trace, 0, s.error)
        /\ UNCHANGED <<executions, now, ticks, cache, installations, pending, held>>

\* session.get_session()
GetSession(b) ==
    LET s == get_session(flask_session[b], sessions, nextId, now)
    IN  /\ sessions' = s.sessions
        /\ nextId' = s.nextId
        /\ flask_session' = [flask_session EXCEPT ![b] = s.cookie]
        /\ hist' = Recorded(b, s, {})
        /\ Done("get_session", b, NoRequest, "none", s.trace, 0, s.error)
        /\ UNCHANGED <<executions, now, ticks, cache, installations, pending, held>>

\* A view that works on the caller's session: session = get_session(), then
\* assignments session[key] = value, then the response.  The Session object
\* lives as long as the request; worker w serves the request of browser b.
OpenSession(b, w) ==
    LET s == get_session(flask_session[b], sessions, nextId, now)
        doc == CHOOSE d \in find_session(sessions, s.cookie.session_id) : TRUE
    IN  /\ held[w] = NoObject
        /\ sessions' = s.sessions
        /\ nextId' = s.nextId
        /\ flask_session' = [flask_session EXCEPT ![b] = s.cookie]
        /\ hist' = Recorded(b, s, {})
        /\ held' = [held EXCEPT ![w] = IF s.error # "none" THEN NoObject
                                       ELSE [id |-> doc._id, data |-> doc.data,
                                             is_authed |-> doc.is_authed]]
        /\ last' = Outcome("get_session", b, NoRequest, "none", s.trace, 0, s.error)
                    @@ [worker |-> w]
        /\ UNCHANGED <<executions, now, ticks, cache, installations, pending>>

\* The assignment session[key] = value; the step records it as the query of last.req
ItemRequest(key, value) ==
    [NoRequest EXCEPT !.endpoint = "Session", !.query = <<<<key, value>>>>]

\* Session.__setitem__(key, value) in the view worker w runs: the dict is
\* updated, the whole dict is persisted with set_session(self, self.id),
\* SessionExpired when the update finds no record
Session_setitem(w, key, value) ==
    LET data == setitem(held[w].data, key, value)
        found == find_session(sessions, held[w].id)
    IN  /\ held[w] # NoObject
        /\ sessions' = update_session(sessions, held[w].id, data, SessionTTL, now)
        /\ held' = [held EXCEPT ![w] = IF found = {} THEN NoObject
                                       ELSE [@ EXCEPT !.data = data]]
        /\ last' = Outcome("setitem", "-", ItemRequest(key, value), "none",
                           <<"set_session">>, 0,
                           IF found = {} THEN "SessionExpired" ELSE "none")
                    @@ [worker |-> w]
        /\ UNCHANGED <<executions, now, ticks, cache, nextId, installations, flask_session, hist,
                       pending>>

\* The view returns and the Session object is dropped
CloseSession(w) ==
    /\ held[w] # NoObject
    /\ held' = [held EXCEPT ![w] = NoObject]
    /\ last' = Idle
    /\ UNCHANGED <<executions, now, ticks, cache, sessions, nextId, installations, flask_session,
                   hist, pending>>

----------------------------------------------------------------------------
(* The environment: the clock, and the store's TTL monitor *)

Tick(d) ==
    /\ ticks < MaxTicks
    /\ now' = now + d
    /\ ticks' = ticks + 1
    /\ last' = Idle
    /\ UNCHANGED <<executions, cache, sessions, nextId, installations, flask_session, hist, pending, held>>

\* The TTL index on cache._expires_at (expireAfterSeconds=0)
EvictCache(e) ==
    /\ has_expired(e._expires_at, now)
    /\ cache' = cache (-) SetToBag({e})
    /\ last' = Idle
    /\ UNCHANGED <<executions, now, ticks, sessions, nextId, installations, flask_session, hist, pending, held>>

\* The TTL index on sessions._expires_at (expireAfterSeconds=0)
EvictSession(d) ==
    /\ has_expired(d._expires_at, now)
    /\ sessions' = sessions \ {d}
    /\ last' = Idle
    /\ UNCHANGED <<executions, now, ticks, cache, nextId, installations, flask_session, hist, pending, held>>

----------------------------------------------------------------------------
Next ==
    \/ \E req \in Requests("install", "POST") : lifecycle_install(req)
    \/ \E req \in Requests("uninstall", "POST") : lifecycle_uninstall(req)
    \/ \E req \in Requests("status", "GET") : lifecycle_status(req)
    \/ \E req \in Requests("create", "POST") : DefaultCreateView(req)
    \/ \E req \in Requests("delete", "DELETE") : DefaultDeleteView(req)
    \/ \E req \in Requests("notify", "POST") : NotifyView(req, <<"x1">>, <<"c1">>)
    \/ \E b \in Browsers : \E req \in Requests("configure", "GET") : ConfigureViewGet(b, req)
    \/ \E b \in Browsers : ConfigureViewPost(b)
    \/ \E d \in {CacheTTL} : Tick(d)
    \/ \E e \in BagToSet(cache) : EvictCache(e)
    \/ \E d \in sessions : EvictSession(d)

Spec == Init /\ [][Next]_vars

\* The endpoints behind validate_oauth_signature, without the form post
NextSigned ==
    \/ \E req \in Requests("install", "POST") : lifecycle_install(req)
    \/ \E req \in Requests("uninstall", "POST") : lifecycle_uninstall(req)
    \/ \E req \in Requests("status", "GET") : lifecycle_status(req)
    \/ \E req \in Requests("create", "POST") : DefaultCreateView(req)
    \/ \E req \in Requests("delete", "DELETE") : DefaultDeleteView(req)
    \/ \E req \in Requests("notify", "POST") : NotifyView(req, <<"x1">>, <<"c1">>)
    \/ \E b \in Browsers : \E req \in Requests("configure", "GET") : ConfigureViewGet(b, req)
    \/ \E d \in {CacheTTL} : Tick(d)
    \/ \E e \in BagToSet(cache) : EvictCache(e)

SpecSigned == Init /\ [][NextSigned]_vars

NextSession ==
    \/ \E b \in Browsers : \E a \in {"True", "False"} : CreateSession(b, a)
    \/ \E b \in Browsers : GetSession(b)
    \/ \E d \in {1, SessionTTL - 1} : Tick(d)
    \/ \E d \in sessions : EvictSession(d)

SpecSession == Init /\ [][NextSession]_vars

\* The cookie is kept by the browser: a request may carry any cookie the
\* application has issued to it, not only the latest.
PresentCookie(b, c) ==
    /\ c # flask_session[b]
    /\ flask_session' = [flask_session EXCEPT ![b] = c]
    /\ last' = Idle
    /\ UNCHANGED <<executions, now, ticks, cache, sessions, nextId, installations, hist, pending, held>>

NextCookie ==
    \/ NextSession
    \/ \E b \in Browsers : \E c \in hist[b].cookies : PresentCookie(b, c)

SpecCookie == Init /\ [][NextCookie]_vars

\* The installation life cycle: the two webhooks signed by the platform (a nonce
\* sent twice in one second is a replay), the browser coming back from the
\* authorization server, and the OAuth2 client storing a refreshed token.
AppIds == {<<CLOUD_APP_CLIENT_ID>>, <<"app2">>}
InstallIds == {<<"i1">>}

InstallQueryOf(app_id) == [InstallQuery EXCEPT ![3] = <<"app_id", app_id>>]

LifecycleRequests(e, queries) ==
    Signed({[method |-> "POST", scheme |-> "http", endpoint |-> e,
             oauth_consumer_key |-> CLOUD_APP_CLIENT_ID, oauth_nonce |-> "n1",
             oauth_timestamp |-> now, oauth_signature |-> << >>, query |-> q] :
                q \in queries},
           {CLOUD_APP_CLIENT_SECRET})

InstallRequests(apps) ==
    LifecycleRequests("install",
        {InstallQueryOf(a) : a \in apps} \cup {SubSeq(InstallQuery, 1, 1)})

UninstallRequests(apps) ==
    LifecycleRequests("uninstall",
        {SubSeq(InstallQuery, 1, 1) \o <<<<"app_id", a>>>> : a \in apps})

\* The state strings a callback may carry: the one a redirect handed out, one
\* naming an id the store does not hold, and two that were never handed out
CallbackStates ==
    {to_str(str_id(id), <<"r">>) : id \in 1 .. nextId}
    \cup {to_str(<<"zz">>, <<"r">>), <<"zz">>}
    \cup {str_id(id) : id \in 1 .. nextId}

\* The authorization flow of one installation
NextOAuth ==
    \/ \E req \in InstallRequests({<<CLOUD_APP_CLIENT_ID>>}) : lifecycle_install(req)
    \/ \E req \in UninstallRequests({<<CLOUD_APP_CLIENT_ID>>}) : lifecycle_uninstall(req)
    \/ \E state \in CallbackStates :
         \E token \in {<<"tok1">>, Failed} : \E url \in BaseUrls \cup {Failed} :
            oauth_callback(state, token, url)
    \/ \E d \in {InstallSessionTTL} : Tick(d)
    \/ \E d \in sessions : EvictSession(d)

SpecOAuth == Init /\ [][NextOAuth]_vars

\* The installation collection and everything that writes it
NextInstallations ==
    \/ \E req \in InstallRequests(AppIds) : lifecycle_install(req)
    \/ \E req \in UninstallRequests(AppIds) : lifecycle_uninstall(req)
    \/ \E state \in {to_str(str_id(id), <<"r">>) : id \in 1 .. nextId} :
         \E token \in Tokens : \E url \in BaseUrls : oauth_callback(state, token, url)
    \/ \E a \in AppIds : \E i \in InstallIds : \E token \in Tokens :
            TokenManager_set(a, i, token)
    \/ \E d \in {CacheTTL} : Tick(d)

SpecInstallations == Init /\ [][NextInstallations]_vars

\* TokenManager instances used on installations that come and go
NextManager ==
    \/ \E req \in InstallRequests(AppIds) : lifecycle_install(req)
    \/ \E req \in UninstallRequests(AppIds) : lifecycle_uninstall(req)
    \/ \E a \in AppIds : \E i \in InstallIds : \E token \in Tokens :
         \E entry \in ManagerEntries : TokenManager_use(a, i, token, entry)
    \/ \E d \in {CacheTTL} : Tick(d)

SpecManager == Init /\ [][NextManager]_vars

\* Notifications: the batches that Eloqua hands to the notify endpoint
InstanceIds == {<<"x1">>, <<"x2">>}
ExecutionIds == {<<"e1">>}
Configs == {<<"c1">>, <<"c2">>}

\* A notification URL carries execution_id when the service was registered
\* with one, and none otherwise
NotifyRequests ==
    LifecycleRequests("notify",
                      {<<<<"execution_id", e>>>> : e \in ExecutionIds} \cup {<< >>})

NextExecutions ==
    \/ \E req \in NotifyRequests : \E x \in InstanceIds : \E c \in Configs :
            NotifyView(req, x, c)
    \/ \E d \in {CacheTTL} : Tick(d)

SpecExecutions == Init /\ [][NextExecutions]_vars

\* Requests whose oauth_* parameters are missing or malformed
NextShaped ==
    \/ \E req \in Requests("status", "GET") : \E shape \in Shapes :
            PresentShaped(req, shape)
    \/ \E d \in {CacheTTL} : Tick(d)
    \/ \E e \in BagToSet(cache) : EvictCache(e)

SpecShaped == Init /\ [][NextShaped]_vars

\* validate_oauth_signature served by concurrent workers: the lookup of
\* _oauth_is_signature_valid (find_one_from_cache) and the insert of the
\* decorator (save_to_cache) are two store operations, and other workers run
\* between them.
RaceRequests ==
    Signed(Unsigned("status", "GET", {CLOUD_APP_CLIENT_ID}, Nonces \X {now}), Secrets)

InFlight == {w \in Workers : pending[w] # NoRequest}

\* Worker w runs _oauth_is_signature_valid() on req and it returns True
BeginValidation(w, req) ==
    /\ pending[w] = NoRequest
    /\ BagCardinality(cache) + Cardinality(InFlight) < MaxCache
    /\ _oauth_is_signature_valid(req, cache, now) = "ok"
    /\ pending' = [pending EXCEPT ![w] = req]
    /\ Done("validate", "-", req, "none", validation_trace("ok"), 0, "none")
    /\ UNCHANGED <<executions, now, ticks, cache, sessions, nextId, installations, flask_session, hist, held>>

\* Worker w runs _oauth_is_signature_valid() on req and it returns False
RejectValidation(w, req) ==
    /\ pending[w] = NoRequest
    /\ Reject("status", "-", req, _oauth_is_signature_valid(req, cache, now))

\* Worker w goes on after the True: save_to_cache, then the view
FinishValidation(w) ==
    /\ pending[w] # NoRequest
    /\ cache' = save_to_cache(cache, [oauth_nonce |-> pending[w].oauth_nonce,
                                      oauth_timestamp |-> pending[w].oauth_timestamp],
                              now)
    /\ pending' = [pending EXCEPT ![w] = NoRequest]
    /\ Done("status", "-", pending[w], "ok", accept_trace \o <<"handler">>, 200, "none")
    /\ UNCHANGED <<executions, now, ticks, sessions, nextId, installations, flask_session, hist, held>>

NextRace ==
    \/ \E w \in Workers : \E req \in RaceRequests : BeginValidation(w, req)
    \/ \E w \in Workers : \E req \in RaceRequests : RejectValidation(w, req)
    \/ \E w \in Workers : FinishValidation(w)
    \/ \E d \in {1} : Tick(d)

SpecRace == Init /\ [][NextRace]_vars

\* Views that write to the caller's session
ItemKeys == {"x", "y"}
ItemValues == {<<"1">>, <<"2">>}

Holding == {w \in Workers : held[w] # NoObject}

\* One view at a time
NextAssign ==
    \/ \E b \in Browsers : Holding = {} /\ CreateSession(b, "True")
    \/ \E b \in Browsers : \E w \in Workers : Holding = {} /\ OpenSession(b, w)
    \/ \E w \in Workers : \E k \in ItemKeys : \E v \in ItemValues :
            Session_setitem(w, k, v)
    \/ \E w \in Workers : CloseSession(w)
    \/ \E d \in {1, SessionTTL} : Tick(d)
    \/ \E d \in sessions : EvictSession(d)

SpecAssign == Init /\ [][NextAssign]_vars

\* The value a worker's view assigns: two workers assign different values
ItemValues_of(w) == IF w = 1 THEN <<"1">> ELSE <<"2">>

\* Concurrent writers: views running on several workers for requests that
\* carry the same cookie, and OAuth2 clients storing tokens for one installation
NextWriters ==
    \/ \E req \in InstallRequests({<<CLOUD_APP_CLIENT_ID>>}) : lifecycle_install(req)
    \/ \E b \in Browsers : hist[b].created = {} /\ CreateSession(b, "True")
    \/ \E b \in Browsers : \E w \in Workers : OpenSession(b, w)
    \/ \E w \in Workers : \E k \in ItemKeys :
            Session_setitem(w, k, ItemValues_of(w))
    \/ \E w \in Workers : CloseSession(w)
    \/ \E i \in InstallIds : \E token \in Tokens :
            TokenManager_set(<<CLOUD_APP_CLIENT_ID>>, i, token)

SpecWriters == Init /\ [][NextWriters]_vars

\* The signature validator alone, on the status endpoint
NextValidator ==
    \/ \E req \in ValidatorRequests : lifecycle_status(req)
    \/ \E d \in {CacheTTL} : Tick(d)
    \/ \E e \in BagToSet(cache) : EvictCache(e)

SpecValidator == Init /\ [][NextValidator]_vars

----------------------------------------------------------------------------
(* The signature alone: signed requests whose query values hold characters  *)
(* the encoding rewrites, and requests altered after they were signed.      *)

Values ==
    {<<"bar">>, <<"a", "/", "b">>, <<"a", "%", "2", "F", "b">>, <<"a", "+", "b">>}

\* ?foo=v, ?foo=v&x=bar, and a key sent twice: ?foo=bar&foo=v
CanonQueries ==
    {<< >>}
    \cup {<<<<"foo", v>>>> : v \in Values}
    \cup {<<<<"foo", v>>, <<"x", <<"bar">>>>>> : v \in Values}
    \cup {<<<<"foo", <<"bar">>>>, <<"foo", v>>>> : v \in Values}

\* Requests on the status endpoint signed with the shared secret
CanonRequests ==
    {[r EXCEPT !.oauth_signature = generate_signature(r)] :
        r \in {[method |-> "GET", scheme |-> "http", endpoint |-> "status",
                oauth_consumer_key |-> CLOUD_APP_CLIENT_ID, oauth_nonce |-> n,
                oauth_timestamp |-> now, oauth_signature |-> << >>, query |-> q] :
                    n \in {"n1"}, q \in CanonQueries}}

\* The requests that differ from req in the value of one query parameter
\* other than oauth_signature, and carry the signature of req
OneValueChanged(req) ==
    UNION {{[req EXCEPT !.query[i][2] = v] : v \in Values \ {req.query[i][2]}} :
             i \in DOMAIN req.query}
    \cup {[req EXCEPT !.oauth_nonce = n] : n \in Nonces \ {req.oauth_nonce}}

\* A signed request reaches the validator as it was signed
PresentSigned(req) == lifecycle_status(req)

\* A signed request reaches the validator with one value changed on the way
PresentAltered(req) == lifecycle_status(req)

NextCanon ==
    \/ \E req \in CanonRequests : PresentSigned(req)
    \/ \E orig \in CanonRequests : \E req \in OneValueChanged(orig) : PresentAltered(req)
    \/ \E d \in {CacheTTL} : Tick(d)
    \/ \E e \in BagToSet(cache) : EvictCache(e)

SpecCanon == Init /\ [][NextCanon]_vars

\* Queries with distinct keys, in the order in which the signer wrote them
OrderQueries ==
    {<<<<"foo", <<"bar">>>>, <<"x", <<"a", "/", "b">>>>>>,
     <<<<"x", <<"bar">>>>, <<"foo", <<"a", "+", "b">>>>, <<"app_id", <<"app1">>>>>>}

\* The orders in which the parameters of the query q may arrive
Reorderings(q) == {[i \in DOMAIN q |-> q[p[i]]] : p \in Permutations(DOMAIN q)}

\* Requests on the status endpoint, signed by the platform or by a guesser
OrderRequests ==
    Signed({[method |-> "GET", scheme |-> "http", endpoint |-> "status",
             oauth_consumer_key |-> CLOUD_APP_CLIENT_ID, oauth_nonce |-> "n1",
             oauth_timestamp |-> now, oauth_signature |-> << >>, query |-> q] :
                q \in OrderQueries},
           Secrets)

\* A signed request reaches the validator with its parameters in another order
PresentReordered(req) == lifecycle_status(req)

NextOrder ==
    \/ \E orig \in OrderRequests : \E q \in Reorderings(orig.query) :
            PresentReordered([orig EXCEPT !.query = q])
    \/ \E d \in {CacheTTL} : Tick(d)
    \/ \E e \in BagToSet(cache) : EvictCache(e)

SpecOrder == Init /\ [][NextOrder]_vars

----------------------------------------------------------------------------
(* Properties.  A step that ran the signature validator leaves its decision *)
(* in last'; the request it examined is last'.req, and the unprimed         *)
(* variables are the state the request met.                                 *)

Validated == last'.decision # "none"

\* The cache c holds an entry for the pair
LivePair(c, oauth_nonce, oauth_timestamp) ==
    \E e \in BagToSet(c) :
        /\ e.data.oauth_nonce = oauth_nonce
        /\ e.data.oauth_timestamp = oauth_timestamp

\* The request carries the signature the validator computes for it
Genuine(req) == req.oauth_signature = generate_signature(req)

\* The entry an ACCEPT of req at time t writes
EntryOf(req, t) ==
    [_expires_in |-> 300, _expires_at |-> t + 300,
     data |-> [oauth_nonce |-> req.oauth_nonce,
               oauth_timestamp |-> req.oauth_timestamp]]

\* C1: a request with the configured consumer key, a timestamp that is not
\* stale, a (nonce, timestamp) pair absent from the replay cache and the
\* validator's own signature is ACCEPTed; the same request sent again at once
\* is REJECTed; and a pair is ACCEPTed only when the cache holds no entry for
\* it, so the cache never holds two entries for one pair.
C1_AcceptOnceThenReject ==
    /\ [](\A e \in BagToSet(cache) : CopiesIn(e, cache) = 1)
    /\ [](\A e1, e2 \in BagToSet(cache) : e1.data = e2.data => e1 = e2)
    /\ [][Validated =>
            /\ (/\ last'.req.oauth_consumer_key = CLOUD_APP_CLIENT_ID
                /\ now - last'.req.oauth_timestamp <= 300
                /\ ~LivePair(cache, last'.req.oauth_nonce, last'.req.oauth_timestamp)
                /\ Genuine(last'.req))
               => last'.decision = "ACCEPT"
            /\ (last.decision = "ACCEPT" /\ last'.req = last.req)
               => last'.decision = "REJECT"
            /\ last'.decision = "ACCEPT"
               => ~LivePair(cache, last'.req.oauth_nonce, last'.req.oauth_timestamp)
         ]_vars

\* A genuine request was rejected as a replay of a pair the cache still holds
C1_Witness ==
    /\ last.cause = "replay"
    /\ last.decision = "REJECT"
    /\ Genuine(last.req)
    /\ last.req.oauth_consumer_key = CLOUD_APP_CLIENT_ID
    /\ now - last.req.oauth_timestamp <= 300
    /\ LivePair(cache, last.req.oauth_nonce, last.req.oauth_timestamp)
    /\ BagCardinality(cache) = 2

\* C4: a request whose timestamp is more than 300 seconds behind the clock is
\* REJECTed whatever its signature; a timestamp at most 300 seconds old
\* (exactly 300, or ahead of the clock) is never rejected by the timestamp step.
C4_StaleWindow ==
    [][Validated =>
         /\ now - last'.req.oauth_timestamp > 300 => last'.decision = "REJECT"
         /\ now - last'.req.oauth_timestamp <= 300 => last'.cause # "timestamp"
      ]_vars

\* A correctly signed request with the configured key, 301 seconds old, was
\* rejected by the timestamp step
C4_Witness ==
    /\ last.cause = "timestamp"
    /\ last.decision = "REJECT"
    /\ Genuine(last.req)
    /\ last.req.oauth_consumer_key = CLOUD_APP_CLIENT_ID
    /\ now - last.req.oauth_timestamp = 301

\* C5: a request whose oauth_consumer_key differs from the configured client
\* id is REJECTed, even when its signature is correct and its nonce and
\* timestamp are fresh.
C5_ConsumerKey ==
    [][Validated =>
         (last'.req.oauth_consumer_key # CLOUD_APP_CLIENT_ID
            => last'.decision = "REJECT")
      ]_vars

\* A correctly signed, fresh, unseen request with another key was rejected
C5_Witness ==
    /\ last.decision = "REJECT"
    /\ last.req.oauth_consumer_key # CLOUD_APP_CLIENT_ID
    /\ Genuine(last.req)
    /\ now - last.req.oauth_timestamp <= 300
    /\ ~LivePair(cache, last.req.oauth_nonce, last.req.oauth_timestamp)

\* C6: a REJECT of any cause leaves the replay cache as it was; an ACCEPT adds
\* exactly one entry, for the request's pair, expiring 300 seconds later; the
\* cache changes in a validator step only on ACCEPT, and the lookup comes
\* before the write.
C6_CacheFrame ==
    [][Validated =>
         /\ last'.decision = "REJECT" => cache' = cache
         /\ last'.decision = "ACCEPT"
              => /\ cache' = cache (+) SetToBag({EntryOf(last'.req, now)})
                 /\ \E i, j \in DOMAIN last'.trace :
                       /\ i < j
                       /\ last'.trace[i] = "find_one_from_cache"
                       /\ last'.trace[j] = "save_to_cache"
         /\ cache' # cache => last'.decision = "ACCEPT"
         /\ last'.decision = "REJECT" => ~\E i \in DOMAIN last'.trace :
                                           last'.trace[i] = "save_to_cache"
      ]_vars

\* An ACCEPT added its entry to a cache that already held another
C6_Witness ==
    /\ last.decision = "ACCEPT"
    /\ BagCardinality(cache) = 2
    /\ BagIn(EntryOf(last.req, now), cache)

\* The business handler ran in the request whose trace is tr
HandlerRan(tr) == \E i \in DOMAIN tr : tr[i] = "handler"

\* C2: the handler of a POST to the configure endpoint runs only when the
\* request's cookie is bound to a session record that is in the store, is
\* unexpired and has is_authed true; in every other case it does not run.
C2_HandlerNeedsAuthedSession ==
    [][(last'.op = "configure" /\ last'.req.method = "POST" /\ HandlerRan(last'.trace))
         => /\ flask_session[last'.caller].session_id # None
            /\ now < flask_session[last'.caller].expires_at
            /\ \E d \in sessions :
                  /\ d._id = flask_session[last'.caller].session_id
                  /\ d.is_authed = "True"
                  /\ now < d._expires_at
      ]_vars

\* C3: on install, uninstall, status, create, delete, notify and GET
\* configure the handler runs only in a request the validator ACCEPTed, and
\* only after the replay-cache entry of its (nonce, timestamp) was written; a
\* REJECTed request gets 401 and its handler does not run.
C3_HandlerAfterAccept ==
    [][Validated =>
         /\ last'.op \in {"install", "uninstall", "status", "create", "delete",
                          "notify", "configure"}
         /\ HandlerRan(last'.trace)
              => /\ last'.decision = "ACCEPT"
                 /\ last'.cause = "ok"
                 /\ \E i, j \in DOMAIN last'.trace :
                       /\ i < j
                       /\ last'.trace[i] = "save_to_cache"
                       /\ last'.trace[j] = "handler"
                 /\ ~BagIn(EntryOf(last'.req, now), cache)
                 /\ BagIn(EntryOf(last'.req, now), cache')
         /\ last'.decision = "REJECT"
              => /\ ~HandlerRan(last'.trace)
                 /\ last'.status = 401
                 /\ UNCHANGED <<executions, sessions, installations, flask_session>>
      ]_vars

\* The handler of GET configure ran after an ACCEPT that wrote the entry
C3_Witness ==
    /\ last.op = "configure"
    /\ last.req.method = "GET"
    /\ last.decision = "ACCEPT"
    /\ HandlerRan(last.trace)
    /\ BagIn(EntryOf(last.req, now), cache)

----------------------------------------------------------------------------
(* Sessions.  In a step of get_session or create_session by browser b the  *)
(* unprimed flask_session[b] is the cookie the call read, hist[b].accessed  *)
(* the time of b's last successful access.                                  *)

Resolved(b) == last'.op = "get_session" /\ last'.caller = b

Created(b) == last'.op = "create_session" /\ last'.caller = b

Record(S, id) == {d \in S : d._id = id}

\* C8: with expires_in = 3600, a resolve by a caller with a bound session
\* succeeds at any time before 3600 seconds after the caller's most recent
\* successful access (create or resolve), and fails with SessionExpired at any
\* time later than that.
C8_SlidingExpiration ==
    [][\A b \in Browsers :
         (Resolved(b) /\ flask_session[b].session_id # None)
           => /\ now < hist[b].accessed + 3600 => last'.error = "none"
              /\ now > hist[b].accessed + 3600 => last'.error = "SessionExpired"
      ]_vars

\* C9: a create by a caller with a bound session removes the bound record,
\* inserts a fresh one and binds the caller to it, so the old id has no
\* record afterwards; and at every moment at most one of the records created
\* for a caller is in the store and unexpired.
C9_SingleLiveSession ==
    /\ [][\A b \in Browsers :
            (Created(b) /\ Record(sessions, flask_session[b].session_id) # {})
              => /\ Record(sessions', flask_session[b].session_id) = {}
                 /\ flask_session'[b].session_id = nextId
                 /\ Record(sessions', nextId) # {}
                 /\ \E i, j \in DOMAIN last'.trace :
                       /\ i < j
                       /\ last'.trace[i] = "delete_session"
                       /\ last'.trace[j] = "set_session"
         ]_vars
    /\ [](\A b \in Browsers :
            Cardinality({d \in sessions :
                           d._id \in hist[b].created /\ now < d._expires_at}) <= 1)

\* C10 as stated: resolve fails with SessionNotFound when no session id is
\* bound or the store has no record for the bound id, and with SessionExpired
\* when the expiry cached in the cookie has passed.
C10_ErrorsAsStated ==
    [][\A b \in Browsers :
         Resolved(b)
           => LET c == flask_session[b]
              IN  /\ c.session_id = None => last'.error = "SessionNotFound"
                  /\ (c.session_id # None /\ Record(sessions, c.session_id) = {}
                        /\ now < c.expires_at)
                       => last'.error = "SessionNotFound"
                  /\ (c.session_id # None /\ Record(sessions, c.session_id) # {}
                        /\ now >= c.expires_at)
                       => last'.error = "SessionExpired"
      ]_vars

\* C10, amended: resolve fails with SessionNotFound exactly when no session
\* id is bound; with a bound id it fails with SessionExpired when the store
\* has no record for the id or the expiry cached in the cookie has passed,
\* and succeeds otherwise; either failure clears the cookie.
C10_ErrorsOfResolve ==
    [][\A b \in Browsers :
         Resolved(b)
           => LET c == flask_session[b]
              IN  /\ c.session_id = None => last'.error = "SessionNotFound"
                  /\ (c.session_id # None
                        /\ (Record(sessions, c.session_id) = {} \/ now >= c.expires_at))
                       => last'.error = "SessionExpired"
                  /\ (c.session_id # None /\ Record(sessions, c.session_id) # {}
                        /\ now < c.expires_at)
                       => last'.error = "none"
                  /\ last'.error # "none" => flask_session'[b] = NoCookie
      ]_vars

\* A resolve with a bound id whose record is gone, before the cached expiry,
\* failed with SessionExpired
C10_Witness ==
    /\ last.op = "get_session"
    /\ last.error = "SessionExpired"
    /\ last.cookie.session_id # None
    /\ now < last.cookie.expires_at
    /\ Record(sessions, last.cookie.session_id) = {}

\* C7: a request that carries the signature the validator computes for it is
\* ACCEPTed when the other checks pass; a request that carries the signature
\* computed for a request differing from it in the value of one query
\* parameter other than oauth_signature is REJECTed.
C7_SignatureCoversEveryValue ==
    [][Validated =>
         /\ (/\ Genuine(last'.req)
             /\ last'.req.oauth_consumer_key = CLOUD_APP_CLIENT_ID
             /\ now - last'.req.oauth_timestamp <= 300
             /\ ~LivePair(cache, last'.req.oauth_nonce, last'.req.oauth_timestamp))
            => last'.decision = "ACCEPT"
         /\ (\E orig \in OneValueChanged(last'.req) :
                last'.req.oauth_signature = generate_signature(orig))
            => last'.decision = "REJECT"
      ]_vars

----------------------------------------------------------------------------
(* The authorization callback *)

Callback == last'.op = "callback"

StateOf(req) == arg(req.query, "state")

\* The step tr went through
Did(tr, step) == \E i \in DOMAIN tr : tr[i] = step

\* The records of S that the state string of a callback names
NamedSessions(req, S) ==
    LET st == from_str(StateOf(req))
    IN  IF st.error = "none" /\ is_valid_id(st.session_id)
        THEN find_session(S, ObjectId(st.session_id)) ELSE {}

\* C11: a read of a session whose _expires_at has passed behaves as if the
\* record were absent and leaves its expiry alone, evicted or not: a callback
\* that names such a session answers "Session expired" and writes nothing.
C11_ExpiredSessionReadsAbsent ==
    [][(Callback /\ \E d \in NamedSessions(last'.req, sessions) :
                        has_expired(d._expires_at, now))
         => /\ last'.status = 400
            /\ sessions' = sessions
      ]_vars

\* C12: a callback whose state names no record of the store, because the id is
\* unknown or is not a well-formed id, answers "Session expired" (400), does
\* not exchange the code for a token and writes nothing.
C12_UnknownStateIsSessionExpired ==
    [][(Callback /\ from_str(StateOf(last'.req)).error = "none"
          /\ NamedSessions(last'.req, sessions) = {})
         => /\ last'.status = 400
            /\ ~Did(last'.trace, "fetch_token")
            /\ sessions' = sessions
            /\ installations' = installations
      ]_vars

\* C13: once a callback carrying a state has completed, a callback carrying
\* the same state exchanges no token, stores no token and updates no
\* installation.
C13_StateConsumedOnce ==
    [][(last.op = "callback" /\ last.status = 302 /\ Callback
          /\ StateOf(last'.req) = StateOf(last.req))
         => /\ ~Did(last'.trace, "fetch_token")
            /\ ~Did(last'.trace, "set_token")
            /\ ~Did(last'.trace, "update_installation")
            /\ installations' = installations
      ]_vars

\* C14: when the base_url update of a callback matches no installation of
\* (app_id, install_id), the request ends as a server error: the hook
\* before_redirect does not run and no redirect is issued.
C14_MissingInstallationFails ==
    [][(Callback /\ Did(last'.trace, "update_installation")
          /\ \E d \in NamedSessions(last'.req, sessions) :
                get_installation(installations, <<CLOUD_APP_CLIENT_ID>>,
                                 data_get(d.data, "install_id")) = {})
         => /\ last'.status = 500
            /\ ~Did(last'.trace, "before_redirect")
            /\ ~Did(last'.trace, "redirect")
      ]_vars

----------------------------------------------------------------------------
(* The token of an installation *)

TokenSet == last'.op = "token_set"

\* TokenManager(app_id, install_id).get() on a manager that holds no token yet,
\* for the pair the request req names, over the collection I
FreshGet(I, req) == get_token(I, arg(req.query, "app_id"), arg(req.query, "install_id"))

\* C15 as stated: whatever the pair (app_id, install_id), after
\* TokenManager.set(token) a fresh manager's get() returns token.
C15_TokenRoundTrip ==
    [][TokenSet => FreshGet(installations', last'.req) = arg(last'.req.query, "token")
      ]_vars

\* C15: for a pair (app_id, install_id) that has an installation record,
\* after TokenManager.set(token) a fresh manager's get() returns token; for a
\* pair without a record set writes nothing and get() returns None.
C15_TokenRoundTripInstalled ==
    [][TokenSet =>
         IF get_installation(installations, arg(last'.req.query, "app_id"),
                             arg(last'.req.query, "install_id")) # {}
         THEN FreshGet(installations', last'.req) = arg(last'.req.query, "token")
         ELSE /\ FreshGet(installations', last'.req) = Absent
              /\ installations' = installations
      ]_vars

\* A set on an installed pair that replaced another token has just run
C15_Witness ==
    /\ last.op = "token_set"
    /\ FreshGet(installations, last.req) = arg(last.req.query, "token")
    /\ \E d \in installations : d.base_url # Absent /\ d.oauth_token \in Tokens

----------------------------------------------------------------------------
(* Concurrent validations *)

\* How many entries of cache c hold the pair (oauth_nonce, oauth_timestamp)
EntriesFor(c, oauth_nonce, oauth_timestamp) ==
    LET same == {e \in BagToSet(c) :
                    e.data = [oauth_nonce |-> oauth_nonce,
                              oauth_timestamp |-> oauth_timestamp]}
    IN  BagCardinality([e \in same |-> c[e]])

Finished == last'.op = "status" /\ last'.decision = "ACCEPT"

\* C16: a validation that has passed the existence check is ACCEPTed and
\* inserts its entry whatever the other workers have inserted since, so two
\* concurrent requests with one (oauth_nonce, oauth_timestamp) that both
\* passed the check are both ACCEPTed and leave two entries for the pair.
C16_ConcurrentReplayAccepted ==
    [][\A w \in Workers :
         (pending[w] # NoRequest /\ pending'[w] = NoRequest)
           => /\ Finished
              /\ last'.req = pending[w]
              /\ EntriesFor(cache', pending[w].oauth_nonce, pending[w].oauth_timestamp)
                   = EntriesFor(cache, pending[w].oauth_nonce,
                                pending[w].oauth_timestamp) + 1
      ]_vars

\* Two requests with one pair have both been ACCEPTed: the second has just
\* finished and the cache holds the pair twice
C16_Witness ==
    /\ last.op = "status"
    /\ last.decision = "ACCEPT"
    /\ EntriesFor(cache, last.req.oauth_nonce, last.req.oauth_timestamp) = 2

----------------------------------------------------------------------------
(* Rejections *)

RejectionCauses == {"consumer_key", "timestamp", "replay", "signature"}

\* C17: whichever of the four causes made the validator refuse a request, the
\* caller gets the same response, 401 with nothing that names the cause, and
\* the validation ran once: no check ran twice, no entry was written and the
\* handler did not run.
C17_RejectionsLookAlike ==
    [][last'.decision = "REJECT"
         => /\ last'.cause \in RejectionCauses
            /\ last'.status = 401
            /\ last'.error = "none"
            /\ \A i, j \in DOMAIN last'.trace :
                  last'.trace[i] = last'.trace[j] => i = j
            /\ ~Did(last'.trace, "save_to_cache")
            /\ ~Did(last'.trace, "handler")
            /\ cache' = cache
      ]_vars

\* A replay has just been refused with 401
C17_Witness ==
    /\ last.decision = "REJECT"
    /\ last.cause = "replay"
    /\ last.status = 401

----------------------------------------------------------------------------
(* The life of an installation record *)

\* The (app_id, install_id) pairs that have a record in I
Installed(I) == {<<d.app_id, d.install_id>> : d \in I}

InstallHandled == last'.op = "install" /\ last'.status = 302

UninstallHandled == last'.op = "uninstall" /\ last'.decision = "ACCEPT"

\* C18: the pairs (app_id, install_id) that have a record are exactly those
\* of an accepted install webhook with no later accepted uninstall webhook for
\* the pair.  An accepted install adds its pair to them and removes none; an
\* accepted uninstall removes its pair and nothing else; every other step, the
\* callback and the token writes among them, neither creates nor deletes a
\* record.
C18_InstallationLifetime ==
    [][LET app_id == arg(last'.req.query, "app_id")
           install_id == arg(last'.req.query, "install_id")
       IN  /\ InstallHandled
                => Installed(installations')
                     = Installed(installations) \cup {<<app_id, install_id>>}
           /\ UninstallHandled
                => Installed(installations')
                     = Installed(installations) \ {<<app_id, install_id>>}
           /\ ~InstallHandled /\ ~UninstallHandled
                => /\ Installed(installations') = Installed(installations)
                   /\ Cardinality(installations') = Cardinality(installations)
      ]_vars

----------------------------------------------------------------------------
(* The expiry after an access *)

\* C19: after a create or a resolve that succeeded at time t the record of the
\* caller's session expires at t + _expires_in, and the expiry in the caller's
\* cookie is the expiry of the record.
C19_ExpiryInStoreAndCookie ==
    [][\A b \in Browsers :
         ((Created(b) \/ Resolved(b)) /\ last'.error = "none")
           => /\ Record(sessions', flask_session'[b].session_id) # {}
              /\ \A d \in Record(sessions', flask_session'[b].session_id) :
                    /\ d._expires_at = now + d._expires_in
                    /\ flask_session'[b].expires_at = d._expires_at
      ]_vars

----------------------------------------------------------------------------
(* Writing to a session *)

Assigned(w) == last'.op = "setitem" /\ last'.worker = w /\ last'.error = "none"

\* C20: after an assignment session[key] = value that succeeded at time t, the
\* record of the session holds the whole payload of the session with the new
\* key in it, its is_authed and _expires_in are what they were, and its
\* _expires_at is t + _expires_in.
C20_AssignmentPersistsPayload ==
    [][\A w \in Workers :
         Assigned(w)
           => /\ Record(sessions', held[w].id) # {}
              /\ \A d \in Record(sessions, held[w].id) :
                  \A e \in Record(sessions', held[w].id) :
                    /\ e.data = setitem(held[w].data, last'.req.query[1][1],
                                        last'.req.query[1][2])
                    /\ e.data = held'[w].data
                    /\ last'.req.query[1] \in e.data
                    /\ e.is_authed = d.is_authed
                    /\ e._expires_in = d._expires_in
                    /\ e._expires_at = now + d._expires_in
      ]_vars

\* A second key has just been assigned, later than the session was resolved
C20_Witness ==
    /\ last.op = "setitem"
    /\ last.error = "none"
    /\ \E b \in Browsers : \E w \in Workers : \E d \in Record(sessions, held[w].id) :
          /\ Cardinality(d.data) = 2
          /\ d._expires_at = now + SessionTTL
          /\ flask_session[b].expires_at < d._expires_at

----------------------------------------------------------------------------
(* The identity of an installation record *)

\* C28: a record is identified by (app_id, install_id): an accepted install
\* webhook leaves every record of another pair as it was, the record of
\* (a1, i) included when the webhook names (a2, i), and an accepted uninstall
\* removes only the record of its own pair.
C28_InstallationIdentity ==
    [][LET app_id == arg(last'.req.query, "app_id")
           install_id == arg(last'.req.query, "install_id")
       IN  (InstallHandled \/ UninstallHandled)
             => \A d \in installations :
                  <<d.app_id, d.install_id>> # <<app_id, install_id>>
                    => d \in installations'
      ]_vars

----------------------------------------------------------------------------
(* An assignment to a session that is gone *)

\* The records of S with the given id whose _expires_at has not passed at t
LiveRecord(S, id, t) == {d \in Record(S, id) : ~has_expired(d._expires_at, t)}

\* C21: when the record of the session was removed or its expiry passed after
\* the resolve, an assignment fails with SessionExpired, and afterwards the
\* store has no unexpired record for the id.
C21_AssignmentToExpiredFails ==
    [][\A w \in Workers :
         (last'.op = "setitem" /\ last'.worker = w
            /\ LiveRecord(sessions, held[w].id, now) = {})
           => /\ last'.error = "SessionExpired"
              /\ LiveRecord(sessions', held[w].id, now) = {}
      ]_vars

----------------------------------------------------------------------------
(* The order of the stages of an endpoint *)

\* The keys that required_args(keys) names on the endpoints that have it
RequiredKeys(op) ==
    CASE op = "install" -> {"install_id", "callback_url", "app_id", "site_id"}
      [] op = "create" -> {"instance_id"}
      [] OTHER -> {}

\* The first position of step in tr, Len(tr) + 1 when it is not there
FirstAt(tr, step) ==
    IF Did(tr, step) THEN CHOOSE i \in DOMAIN tr :
                              tr[i] = step /\ \A j \in 1 .. i - 1 : tr[j] # step
    ELSE Len(tr) + 1

\* C22: the stages run in the order required-args check, signature
\* validation, session gate, handler: the required-args check comes before
\* the first check of the validator, and a request that lacks a required
\* argument is answered with 400 with no validation and no cache entry.
C22_StagesInOrder ==
    [][(Validated /\ last'.op \in {"install", "create"})
         => /\ Did(last'.trace, "required_args")
                 => FirstAt(last'.trace, "required_args")
                      < FirstAt(last'.trace, "check_consumer_key")
            /\ missing_keys(last'.req, RequiredKeys(last'.op)) # {}
                 => /\ last'.status = 400
                    /\ ~Did(last'.trace, "check_consumer_key")
                    /\ cache' = cache
      ]_vars

----------------------------------------------------------------------------
(* The steps of a callback *)

\* The installation the session named by the callback belongs to
InstallIdOf(req, S) ==
    data_get((CHOOSE d \in NamedSessions(req, S) : TRUE).data, "install_id")

\* C23: the steps of a callback run in program order, each at most once: what
\* ran is an initial part of the order.  The redirect is issued exactly when
\* all of it ran, and then the token has been stored and the base_url update
\* has been applied to the installation.
C23_CallbackStepsInOrder ==
    [][Callback
         => /\ \E n \in 0 .. Len(CallbackOrder) :
                  /\ last'.trace = SubSeq(CallbackOrder, 1, n)
                  /\ last'.status = 302 <=> n = Len(CallbackOrder)
            /\ last'.status = 302
                 => \E token \in Tokens : \E url \in BaseUrls :
                      LET app_id == <<CLOUD_APP_CLIENT_ID>>
                          install_id == InstallIdOf(last'.req, sessions)
                      IN  /\ \A d \in get_installation(installations', app_id,
                                                       install_id) :
                                d.oauth_token = token /\ d.base_url = url
                          /\ Installed(installations') = Installed(installations)
      ]_vars

\* A callback has just redirected, the installation holds token and base_url
C23_Witness ==
    /\ last.op = "callback"
    /\ last.status = 302
    /\ last.trace = CallbackOrder
    /\ \E d \in installations : d.oauth_token \in Tokens /\ d.base_url \in BaseUrls

----------------
(* A callback whose downstream call fails *)

\* (app_id, install_id, base_url) of every record of I
BaseUrlsOf(I) == {<<d.app_id, d.install_id, d.base_url>> : d \in I}

\* C24: a callback whose token exchange fails stops at the exchange and
\* leaves the installations as they were; one whose identity fetch fails
\* stops at the fetch and leaves every base_url as it was; neither retries
\* the step, runs a later one or redirects.
C24_DownstreamFailureIsTerminal ==
    [][Callback
         => /\ last'.error = "fetch_token"
                 => /\ last'.trace = SubSeq(CallbackOrder, 1, 3)
                    /\ installations' = installations
                    /\ last'.status = 500
            /\ last'.error = "get_identity"
                 => /\ last'.trace = SubSeq(CallbackOrder, 1, 5)
                    /\ BaseUrlsOf(installations') = BaseUrlsOf(installations)
                    /\ last'.status = 500
      ]_vars

\* The identity fetch has just failed after the token was stored
C24_Witness ==
    /\ last.op = "callback"
    /\ last.error = "get_identity"
    /\ \E d \in installations : d.oauth_token \in Tokens /\ d.base_url = Absent

----------------------------------------------------------------------------
(* The state string and the session it names *)

\* C25: the state an accepted install hands out names, in its session_id
\* half, a record the install has just put in the store, with a TTL of 300
\* seconds and with the install_id and callback_url of the request; a callback
\* that redirects goes to the redirect_url, and writes to the installation of
\* the install_id, of exactly the record its state names.
C25_StateNamesInstallSession ==
    [][/\ InstallHandled
            => LET st == from_str(last'.state)
               IN  /\ st.error = "none"
                   /\ is_valid_id(st.session_id)
                   /\ find_session(sessions, ObjectId(st.session_id)) = {}
                   /\ \E d \in find_session(sessions', ObjectId(st.session_id)) :
                         /\ d._expires_in = 300
                         /\ d._expires_at = now + 300
                         /\ data_get(d.data, "install_id")
                              = arg(last'.req.query, "install_id")
                         /\ data_get(d.data, "redirect_url")
                              = arg(last'.req.query, "callback_url")
       /\ (Callback /\ last'.status = 302)
            => \E d \in NamedSessions(last'.req, sessions) :
                  /\ last'.location = data_get(d.data, "redirect_url")
                  /\ \A e \in installations' :
                        e \notin installations
                          => /\ e.install_id = data_get(d.data, "install_id")
                             /\ e.app_id = <<CLOUD_APP_CLIENT_ID>>
      ]_vars

\* The callback for a state handed out by an install has just redirected to
\* the callback_url of that install
C25_Witness ==
    /\ last.op = "callback"
    /\ last.status = 302
    /\ last.location = CallbackUrl
    /\ \E d \in NamedSessions(last.req, sessions) : d._expires_in = 300

----------------------------------------------------------------------------
(* Concurrent writers *)

\* C26: writes to a session and to a token are last-writer-wins.  Whatever
\* other holders of the session id have written since this holder resolved
\* it, its assignment succeeds while the record is there, and the record then
\* holds this holder's payload and nothing else; a token write to an
\* installation succeeds whatever token was there, and the installation then
\* holds the token written.
C26_LastWriterWins ==
    [][/\ \A w \in Workers :
            (last'.op = "setitem" /\ last'.worker = w
               /\ Record(sessions, held[w].id) # {})
              => /\ last'.error = "none"
                 /\ \A e \in Record(sessions', held[w].id) :
                       e.data = setitem(held[w].data, last'.req.query[1][1],
                                        last'.req.query[1][2])
       /\ (TokenSet /\ get_installation(installations,
                                        arg(last'.req.query, "app_id"),
                                        arg(last'.req.query, "install_id")) # {})
            => /\ last'.error = "none"
               /\ FreshGet(installations', last'.req) = arg(last'.req.query, "token")
      ]_vars

\* Two holders of one session: the write of one has just removed from the
\* record a key that only the other had set
C26_Witness ==
    /\ last.op = "setitem"
    /\ last.error = "none"
    /\ \E w \in Workers \ {last.worker} :
          /\ held[w].id = held[last.worker].id
          /\ \E e \in Record(sessions, held[w].id) :
                \E p \in held[w].data : p[1] \notin data_keys(e.data)

----------------------------------------------------------------------------
(* The token cached by a TokenManager *)

ManagerUsed == last'.op = "manager"

\* C27 as stated: after set(token) or a call, whatever the pair, the token the
\* store holds for (app_id, install_id) is the instance's _token, which is
\* what get() returns.
C27_StoredEqualsCached ==
    [][ManagerUsed =>
         /\ last'._token = arg(last'.req.query, "token")
         /\ last'.got = last'._token
         /\ FreshGet(installations', last'.req) = last'.got
      ]_vars

\* C27: set(token) and a call both set the instance's _token to token, and
\* get() returns it; both write token to the installation record of
\* (app_id, install_id) when there is one, and the stored token then equals
\* the cached one; when there is none, nothing is stored.
C27_StoredEqualsCachedInstalled ==
    [][ManagerUsed =>
         /\ last'._token = arg(last'.req.query, "token")
         /\ last'.got = last'._token
         /\ IF get_installation(installations, arg(last'.req.query, "app_id"),
                                arg(last'.req.query, "install_id")) # {}
            THEN FreshGet(installations', last'.req) = last'.got
            ELSE /\ FreshGet(installations', last'.req) = Absent
                 /\ installations' = installations
      ]_vars

\* A manager that was called (not told to set) on an installed pair holds
\* the token that the store now holds
C27_Witness ==
    /\ last.op = "manager"
    /\ last.entry = "__call__"
    /\ last.got \in Tokens
    /\ last.got = FreshGet(installations, last.req)

----------------------------------------------------------------------------
(* Execution records *)

\* C29: an execution record is write-once.  Once get_execution(execution_id)
\* has a record to return, no later step, a later notification included,
\* changes what it may return.
C29_ExecutionWriteOnce ==
    [][\A e \in ExecutionIds :
          get_execution(executions, e) # {}
            => get_execution(executions', e) = get_execution(executions, e)
      ]_vars

----------------------------------------------------------------------------
(* The order of the query parameters *)

\* The query parameters of req have distinct keys
DistinctKeys(req) == Cardinality(Keys(req.query)) = Len(req.query)

\* C30: the decision of the validator does not depend on the order of the
\* query parameters.  For a validated request whose parameters have distinct
\* keys, the same parameters in any other order give the same canonical
\* message, the same expected signature and the same decision.
C30_OrderOfParameters ==
    [][(Validated /\ DistinctKeys(last'.req)) =>
         \A q \in Reorderings(last'.req.query) :
            LET other == [last'.req EXCEPT !.query = q]
            IN  /\ signature_message(other) = signature_message(last'.req)
                /\ generate_signature(other) = generate_signature(last'.req)
                /\ _oauth_is_signature_valid(other, cache, now) = last'.cause
      ]_vars

\* A request whose three parameters arrived in an order that is neither the
\* signer's nor the sorted one has been ACCEPTed
C30_Witness ==
    /\ last.op = "status"
    /\ last.decision = "ACCEPT"
    /\ Len(last.req.query) = 3
    /\ last.req.query[1][1] = "foo"
    /\ last.req.query[2][1] = "app_id"
    /\ last.req.query[3][1] = "x"

----------------------------------------------------------------------------
(* A state string that cannot be parsed *)

\* The string v holds the separator of the state string
HasSeparator(v) == \E i \in DOMAIN v : v[i] = "."

\* C31: a callback whose state holds no "." fails in from_str, with the
\* IndexError of the parse, before the session lookup, the token exchange and
\* any write to the store.
C31_UnparsableStateFailsFirst ==
    [][(Callback /\ ~HasSeparator(StateOf(last'.req)))
         => /\ last'.error = "IndexError"
            /\ last'.status = 500
            /\ last'.trace = <<"from_str">>
            /\ sessions' = sessions
            /\ installations' = installations
      ]_vars

\* A callback whose state is the bare id of a session that the store holds,
\* for an installation that exists, has failed in the parse
C31_Witness ==
    /\ last.op = "callback"
    /\ last.error = "IndexError"
    /\ \E d \in sessions : StateOf(last.req) = str_id(d._id)
    /\ installations # {}

----------------------------------------------------------------------------
(* Replays after the cache entry has gone *)

----------------------------------------------------------------------------
(* Requests with missing or malformed oauth_* parameters *)

\* C33: a request with the configured consumer key that lacks oauth_timestamp
\* or oauth_signature, or whose oauth_timestamp is not a number, is answered
\* 401 like every rejected request: no exception, no cache entry, no handler.
C33_MalformedIsRejected ==
    [][(last'.op = "status" /\ last'.shape # "ok"
          /\ last'.req.oauth_consumer_key = CLOUD_APP_CLIENT_ID)
         => /\ last'.status = 401
            /\ last'.error = "none"
            /\ cache' = cache
            /\ ~HandlerRan(last'.trace)
      ]_vars

----------------------------------------------------------------------------
(* A resolve that fails *)

\* C34: a resolve that fails with SessionExpired or SessionNotFound leaves
\* the session store as it was: no record is deleted, and the expiry of the
\* record the cookie names is not refreshed.
C34_FailedResolveWritesNothing ==
    [][\A b \in Browsers :
         (Resolved(b) /\ last'.error \in {"SessionExpired", "SessionNotFound"})
           => sessions' = sessions
      ]_vars

\* C35: a resolve that fails leaves the caller's cookie without a session id
\* and without an expiry; the cookie stays so until the caller creates a
\* session, and every resolve with such a cookie fails with SessionNotFound.
C35_AfterFailureNotFound ==
    [][\A b \in Browsers :
         /\ (Resolved(b) /\ last'.error # "none") => flask_session'[b] = NoCookie
         /\ (flask_session[b] = NoCookie /\ ~Created(b))
              => flask_session'[b] = NoCookie
         /\ (Resolved(b) /\ flask_session[b] = NoCookie)
              => last'.error = "SessionNotFound"
      ]_vars

\* A resolve has failed with SessionNotFound for a caller whose session is
\* still in the store and unexpired: an earlier failure cleared the cookie
C35_Witness ==
    /\ last.op = "get_session"
    /\ last.error = "SessionNotFound"
    /\ \E d \in sessions :
          d._id \in hist[last.caller].created /\ ~has_expired(d._expires_at, now)

----------------------------------------------------------------------------
(* A second install and an uninstall *)

\* The records of I that carry the given install_id
ByInstallId(I, install_id) == {d \in I : d.install_id = install_id}

\* C36: an accepted install webhook for an install_id that already has a
\* record keeps a single record for that install_id; the record keeps its
\* oauth token and its base_url, its other fields are those of the request
\* and the friendly name, and every other record stays as it was.
C36_ReinstallKeepsTokenAndUrl ==
    [][LET install_id == arg(last'.req.query, "install_id")
           old == ByInstallId(installations, install_id)
           new == ByInstallId(installations', install_id)
       IN  (InstallHandled /\ old # {})
             => /\ Cardinality(new) = 1
                /\ installations' \ new = installations \ old
                /\ \A d \in new : \A o \in old :
                      /\ d.oauth_token = o.oauth_token
                      /\ d.base_url = o.base_url
                      /\ d.app_id = arg(last'.req.query, "app_id")
                      /\ d.site_id = arg(last'.req.query, "site_id")
                      /\ d._name = <<"friendly">>
      ]_vars

\* An install has just been accepted for an installation that had been
\* authorized before: its record holds a token and a base_url
C36_Witness ==
    /\ last.op = "install"
    /\ last.status = 302
    /\ \E d \in ByInstallId(installations, arg(last.req.query, "install_id")) :
          d.oauth_token # Absent /\ d.base_url # Absent

\* C37: an accepted uninstall webhook for a pair without a record answers 400
\* and leaves the records unchanged; for a pair with a record it removes that
\* record and no other and answers 204, and the token of the pair then reads
\* as absent.
C37_UninstallOutcome ==
    [][LET app_id == arg(last'.req.query, "app_id")
           install_id == arg(last'.req.query, "install_id")
           old == get_installation(installations, app_id, install_id)
       IN  UninstallHandled
             => IF old = {}
                THEN last'.status = 400 /\ installations' = installations
                ELSE /\ last'.status = 204
                     /\ Cardinality(old) = 1
                     /\ installations' = installations \ old
                     /\ get_token(installations', app_id, install_id) = Absent
      ]_vars

\* An uninstall has just removed the record of its pair, which had been
\* installed through a webhook that handed out a session
C37_Witness ==
    /\ last.op = "uninstall"
    /\ last.status = 204
    /\ nextId > 1
    /\ get_installation(installations, arg(last.req.query, "app_id"),
                        arg(last.req.query, "install_id")) = {}

----------------------------------------------------------------------------
(* The contacts of a notification *)

ContactIds == {<<"k1">>, <<"k2">>}

\* What the registration platform does with an add or update request: it
\* answers with a status, or the request raises; "-" when no request is made
Answers == {"200", "400", "raised"}

\* An item of the notification, with the answer its request will get.
\* fields: "none" when the item holds nothing but its id, "unnamed" when
\* firstName or lastName is missing, "named" otherwise; known: the email is
\* among the participants of the project
Contacts ==
    {[id |-> k, fields |-> f, known |-> FALSE, answer |-> "-"] :
        k \in ContactIds, f \in {"none", "unnamed"}}
    \cup {[id |-> k, fields |-> "named", known |-> e, answer |-> a] :
            k \in ContactIds, e \in BOOLEAN, a \in Answers}

\* The item lists of a notification: each contact at most once
ItemLists ==
    {<< >>} \cup {<<c>> : c \in Contacts}
    \cup {q \in Contacts \X Contacts : q[1].id # q[2].id}

\* QondorClient.send_single_participant: None for an empty item, False for an
\* item without firstName or lastName or a request that raised, True once the
\* request was answered
send_single_participant(contact) ==
    IF contact.fields = "none" THEN "None"
    ELSE IF contact.fields = "unnamed" THEN "False"
    ELSE IF contact.answer = "raised" THEN "False"
    ELSE "True"

NoLists == [success_contacts |-> << >>, error_contacts |-> << >>,
            missing_project_id |-> << >>]

\* A body of the loop that files the boolean results only
place_bool_only(lists, contact_id, contact_status) ==
    IF contact_status = "True"
    THEN [lists EXCEPT !.success_contacts = Append(@, contact_id)]
    ELSE IF contact_status = "False"
    THEN [lists EXCEPT !.error_contacts = Append(@, contact_id)]
    ELSE lists

\* The body of the loop of process_items after the call: the if / elif / else
\* on contact_status
place(lists, contact_id, contact_status) ==
    IF contact_status = "True"
    THEN [lists EXCEPT !.success_contacts = Append(@, contact_id)]
    ELSE IF contact_status = "False"
    THEN [lists EXCEPT !.error_contacts = Append(@, contact_id)]
    ELSE [lists EXCEPT !.error_contacts = Append(@, contact_id),
                       !.missing_project_id = Append(@, contact_id)]

\* The loop of process_items over the items, in order
RECURSIVE contact_loop(_, _)
contact_loop(items, lists) ==
    IF items = << >> THEN lists
    ELSE contact_loop(Tail(items),
                      place(lists, Head(items).id, send_single_participant(Head(items))))

\* The calls of import_contact_status that process_items makes, in order
import_calls(lists) ==
    (IF Len(lists.success_contacts) > 0
     THEN <<[success |-> TRUE, contacts |-> lists.success_contacts]>> ELSE << >>)
    \o (IF Len(lists.error_contacts) > 0
        THEN <<[success |-> FALSE, contacts |-> lists.error_contacts]>> ELSE << >>)

\* NotifyView.import_contact_status: the status set for each contact
import_contact_status(success, contacts) ==
    {<<contacts[i], IF success THEN "complete" ELSE "errored">> :
        i \in DOMAIN contacts}

\* The calls that are started when the calls named in raises raise: nothing
\* catches the exception, so the first one that raises is the last one started
RECURSIVE started(_, _)
started(calls, raises) ==
    IF calls = << >> THEN << >>
    ELSE IF Head(calls).success \in raises THEN <<Head(calls)>>
    ELSE <<Head(calls)>> \o started(Tail(calls), raises)

\* NotifyView.process_items once the decorators have accepted the request.
\* project_raises: the lookups before the loop raise (the project id, the
\* custom field, the participants of the project); import_raises: the imports
\* that raise
process_items(instance_id, execution_id, instance_config, items, project_raises, import_raises) ==
    LET lists == IF project_raises THEN NoLists ELSE contact_loop(items, NoLists)
        calls == started(import_calls(lists), import_raises)
        done == {i \in DOMAIN calls : calls[i].success \notin import_raises}
        failed == project_raises \/ done # DOMAIN calls
    IN  /\ executions' = insert_execution(executions, <<CLOUD_APP_CLIENT_ID>>,
                                          <<"i1">>, instance_id, execution_id,
                                          instance_config)
        /\ last' = Outcome("process_items", "-", NoRequest, "none",
                           <<"insert_execution">>
                             \o (IF project_raises THEN << >> ELSE <<"loop">>),
                           IF failed THEN 500 ELSE 204,
                           IF failed THEN "Exception" ELSE "none")
                     @@ [items |-> items,
                         success_contacts |-> lists.success_contacts,
                         error_contacts |-> lists.error_contacts,
                         missing_project_id |-> lists.missing_project_id,
                         imports |-> calls,
                         reported |-> UNION {import_contact_status(calls[i].success,
                                                                   calls[i].contacts) :
                                               i \in done}]
        /\ UNCHANGED <<now, ticks, cache, sessions, nextId, installations,
                       flask_session, hist, pending, held>>

NextItems ==
    \E items \in ItemLists : \E project_raises \in BOOLEAN :
       \E import_raises \in SUBSET BOOLEAN :
          process_items(<<"x1">>, <<"e1">>, <<"c1">>, items, project_raises,
                        import_raises)

SpecItems == Init /\ [][NextItems]_vars

Processed == last.op = "process_items"

\* The elements of a list
ListSet(q) == {q[i] : i \in DOMAIN q}

\* The statuses reported for contact k
StatusesOf(k) == {st \in {"complete", "errored"} : <<k, st>> \in last.reported}

\* Every item is in exactly one of the two lists, once
Partitioned ==
    /\ \A i \in DOMAIN last.items :
         (last.items[i].id \in ListSet(last.success_contacts))
           # (last.items[i].id \in ListSet(last.error_contacts))
    /\ Len(last.success_contacts) + Len(last.error_contacts) = Len(last.items)

\* The import is called at most once per list, and only with a list that is
\* not empty
ImportedOncePerList ==
    /\ \A i, j \in DOMAIN last.imports :
         last.imports[i].success = last.imports[j].success => i = j
    /\ \A i \in DOMAIN last.imports :
         /\ last.imports[i].contacts # << >>
         /\ last.imports[i].contacts
              = IF last.imports[i].success THEN last.success_contacts
                ELSE last.error_contacts

C39_CompleteOnlyIfAnswered200 ==
    Processed
      => \A i \in DOMAIN last.items :
           LET c == last.items[i]
           IN  /\ <<c.id, "complete">> \in last.reported => c.answer = "200"
               /\ (last.error = "none"
                   /\ (c.fields = "unnamed" \/ c.answer \in {"400", "raised"}))
                    => <<c.id, "errored">> \in last.reported

====
